---- MODULE Spec2Model ----
(***************************************************************************)
(* Model of mongo::CollectionImpl (src/mongo/db/catalog/collection_impl.cpp)*)
(* : the document insert / update / delete path, document validation and   *)
(* the capped-collection eviction (_cappedDeleteAsNeeded), running inside  *)
(* units of work of concurrent writers on one record store.                *)
(*                                                                         *)
(* The record store, the index catalog and the recovery unit are external  *)
(* collaborators.  They are modelled as a snapshot-isolated table:         *)
(*   live      records whose insert is committed and not yet removed by a  *)
(*             committed delete                                            *)
(*   ins[w]    records inserted by writer w's open unit of work            *)
(*   del[w]    records deleted by writer w's open unit of work             *)
(*   snap[w]   the committed records writer w's snapshot sees              *)
(* dataSize()/numRecords() are the store's global counters: they move at   *)
(* the time of the write and are restored on rollback.                     *)
(***************************************************************************)
EXTENDS Integers, Naturals, Sequences, FiniteSets, TLC

\* ------------------------------------------------------------------ bounds
\* Record ids the record store hands out (ids are never reused).
MaxId == 4
\* Largest insert batch.
MaxBatch == 2
\* Document sizes (objsize), in abstract bytes: a small and a large one.
DocSizes == {1, 2}
\* Records the single-writer specification inserts.
MaxGeneralId == 2
\* Records inserted by the concurrent writers.
MaxCappedId == 3
\* Records inserted when the units of work run one at a time.
MaxSeqId == 4

\* Generations (CollectionImpl instances) created for one collection.
MaxGen == 4

\* The writer threads (operation contexts).
Writers == {"w1", "w2"}

\* RecordId() : the null record id.
NullId == 0
\* No thread holds the lock.
NoWriter == "none"
\* nullptr : no CollectionImpl instance.
NoGen == 0
\* Timestamps passed to setMinimumVisibleSnapshot; boost::none is
\* NoTimestamp.
MaxTimestamp == 2
MaxInstances == 3
Timestamps == 0..MaxTimestamp
NoTimestamp == -1
\* Values the window executor is given, each its own approximate size;
\* sizeof(*this) of the executor; the number of values added in one run.
MaxValue == 2
WindowValues == 1..MaxValue
ExecSize == 1
MaxAdds == 4
\* The instances, in the order of their construction.
Generations == 1..MaxGen
\* Read operations that keep the instance they looked up alive.
ReaderIds == {"r1", "r2"}

RecordIds == 1..MaxId

\* ------------------------------------------------------------- documents
\* A document: its _id element (0 = the element is missing, eoo), its byte
\* size (objsize) and what the validator's match expression does on it.
IdValues == {0, 1, 2}
MatchResults == {"match", "nomatch", "throw"}
Docs == [idField : IdValues, size : DocSizes, matches : MatchResults]

\* Documents of the capped-eviction specification: only the size varies.
CappedDocs == {d \in Docs : d.idField = 1 /\ d.matches = "match"}

NoDoc == [idField |-> 0, size |-> 0, matches |-> "none"]

\* Non-empty batches of at most n documents drawn from S.
Batches(S, n) == UNION {[1..k -> S] : k \in 1..n}

VARIABLES
    \* --- collection options / server parameters (fixed after construction)
    fcv,                   \* featureCompatibility version: 44, 47 or 50
    isCapped,              \* _shared->_isCapped
    cappedMaxSize,         \* _shared->_cappedMaxSize
    cappedMaxDocs,         \* _shared->_cappedMaxDocs (0 = no limit)
    needCappedLock,        \* _shared->_needCappedLock
    isReplicated,          \* ns().isReplicated()
    selfManagedTruncation, \* ns().isOplog() && selfManagedOplogTruncation()
    needsSizeAdjustment,   \* sizeRecoveryState().collectionNeedsSizeAdjustment
    hasIdIndex,            \* _indexCatalog->findIdIndex() / haveAnyIndexes()
    validator,             \* _validator: [ok, filter]
    validationLevel,       \* _validationLevel
    validationAction,      \* _validationAction
    \* --- record store and index catalog
    nextId,                \* next record id the record store assigns
    docs,                  \* record id -> document bytes
    live,                  \* committed records
    ins, del, snap,        \* per writer: uncommitted inserts/deletes, snapshot
    undo,                  \* per writer: pre-images of updated records
    indexKeys,             \* record ids that have index entries
    ixAdded, ixRemoved,    \* per writer: uncommitted index changes
    \* --- shared state of the capped deleter
    cappedFirstRecord,     \* _shared->_cappedFirstRecord (resume pointer)
    cappedDeleterMutex,    \* holder of _shared->_cappedDeleterMutex
    metaLock,              \* holder of the RESOURCE_METADATA X lock
    \* --- per writer / operation context
    pc,                    \* "idle", "uow", "cappedWait", "capped", "failed"
    enforcing,             \* opCtx->isEnforcingConstraints()
    validationDisabled,    \* DocumentValidationSettings::isSchemaValidationDisabled
    apiStrictError,        \* checkValidatorAPIVersionCompatability fails
    justInserted,          \* argument of the pending _cappedDeleteAsNeeded
    commitHooks,           \* onCommit handlers registered (notify waiters)
    rollbackHooks,         \* onRollback handlers registered (clear pointer)
    lastOp,                \* the writer's last operation: name, status, steps
    uow,                   \* what the writer's unit of work has done (Uow0)
    \* --- catalog: attaching the collection, its CollectionImpl instances
    ns,                    \* kind of the namespace: "user", "system", "local"
    clusterRole,           \* serverGlobalParams.clusterRole
    collectionOptions,     \* the persisted CollectionOptions
    recordPreImages,       \* _recordPreImages
    initialized,           \* "no", "yes" (_initialized) or "threw"
    collectionLatest,      \* _shared->_collectionLatest
    collectionPrev,        \* _shared->_collectionPrev
    alive,                 \* the instances constructed and not destroyed
    catalogGen,            \* the instance the catalog holds (NoGen: none)
    pendingClone,          \* the clone not yet committed (NoGen: none)
    readers,               \* reader -> the instance it holds (NoGen: none)
    nextGen,               \* number of the next instance
    lastCat,               \* the last catalog step: name, instance
    \* --- capped insert notifier
    cappedWaiters,         \* the readers that hold _cappedNotifier and wait
    notified,              \* those of them that notifyAll has woken
    \* --- the committed flag and the minimum visible snapshot of instances
    cachedCommitted,       \* instance -> _cachedCommitted
    committed,             \* _shared->_committed
    minVisibleSnapshot,    \* instance -> _minVisibleSnapshot (NoTimestamp)
    snapshotsPassed,       \* instance -> timestamps passed to it so far
    \* --- WindowFunctionExecRemovableDocument
    values,                \* _values: the queue, oldest value first
    functionValues,        \* the values the window function (_function) holds
    memUsageBytes,         \* _memUsageBytes
    execInitialized,       \* _initialized of the executor
    addCalls,              \* number of values added so far
    \* --- history
    lastArgs,              \* the arguments of the last call (NoArgs)
    calls,                 \* number of insert/update/delete calls so far
    hist                   \* bookkeeping about the run (see Hist0)

cfgVars == <<fcv, isCapped, cappedMaxSize, cappedMaxDocs, needCappedLock,
             isReplicated, selfManagedTruncation, needsSizeAdjustment,
             hasIdIndex, validator, validationLevel, validationAction>>
storeVars == <<nextId, docs, live, ins, del, snap, undo>>
indexVars == <<indexKeys, ixAdded, ixRemoved>>
cappedVars == <<cappedFirstRecord, cappedDeleterMutex>>
ctxVars == <<enforcing, validationDisabled, apiStrictError>>
opVars == <<pc, ctxVars, justInserted, commitHooks, rollbackHooks, lastOp,
            uow>>
genVars == <<collectionLatest, collectionPrev, alive, catalogGen,
             pendingClone, readers, nextGen>>
catVars == <<ns, clusterRole, collectionOptions, recordPreImages,
             initialized, genVars, lastCat>>
notifierVars == <<cappedWaiters, notified>>
instanceVars == <<cachedCommitted, committed, minVisibleSnapshot,
                  snapshotsPassed>>
execVars == <<values, functionValues, memUsageBytes, execInitialized,
              addCalls>>
vars == <<cfgVars, storeVars, indexVars, cappedVars, metaLock, opVars,
          catVars, notifierVars, instanceVars, execVars, lastArgs, calls, hist>>

\* ------------------------------------------------------------ arithmetic
RECURSIVE SumSizes(_, _)
\* Sum of the sizes of the records in set s, documents taken from d.
SumSizes(d, s) ==
    IF s = {} THEN 0
    ELSE LET x == CHOOSE y \in s : TRUE
         IN d[x].size + SumSizes(d, s \ {x})

RECURSIVE SeqSizes(_)
\* Sum of the sizes of a batch of documents.
SeqSizes(b) == IF b = <<>> THEN 0 ELSE Head(b).size + SeqSizes(Tail(b))

Min(a, b) == IF a < b THEN a ELSE b

SetMin(s) == CHOOSE x \in s : \A y \in s : x <= y

\* --------------------------------------------------------- record store
AllIns == UNION {ins[w] : w \in Writers}
AllDel == UNION {del[w] : w \in Writers}

\* The records physically accounted for by the store's counters.
Physical == (live \cup AllIns) \ AllDel

\* RecordStore::dataSize / numRecords, as CollectionImpl::dataSize reads them.
dataSize == SumSizes(docs, Physical)
numRecords == Cardinality(Physical)

\* A record some snapshot or unit of work can still read; the bytes of the
\* others are gone.
Referenced(r) ==
    r \in live \cup AllIns \cup UNION {snap[w] : w \in Writers}

\* What a cursor of writer w's recovery unit sees.
Visible(w) == (snap[w] \cup ins[w]) \ del[w]

\* CollectionImpl::isCapped
IsCappedColl == isCapped

\* _indexCatalog->haveAnyIndexes()
haveAnyIndexes == hasIdIndex

\* ------------------------------------------------------------ validation
\* validationLevelOrDefault: an unset level means "strict".
validationLevelOrDefault(level) == IF level = "unset" THEN "strict" ELSE level

\* validationActionOrDefault: an unset action means "error".
validationActionOrDefault(action) == IF action = "unset" THEN "error" ELSE action

\* serverGlobalParams.featureCompatibility >= 4.7
isFCVAtLeast47 == fcv >= 47

\* serverGlobalParams.featureCompatibility < 5.0
useOldCappedDeleteBehaviour == fcv < 50

\* ns().isTemporaryReshardingCollection(): the collection is an ordinary one.
isTemporaryReshardingCollection == FALSE

\* Variant: action "warn" is not looked at.
checkValidationNoWarn(w, doc) ==
    IF ~validator.ok THEN "ValidatorError"
    ELSE IF ~validator.filter THEN "OK"
    ELSE IF validationLevelOrDefault(validationLevel) = "off" THEN "OK"
    ELSE IF validationDisabled[w] THEN "OK"
    ELSE IF apiStrictError[w] THEN "APIStrictError"
    ELSE IF doc.matches = "match" THEN "OK"
    ELSE "DocumentValidationFailure"

\* CollectionImpl::checkValidation(opCtx, document), for the operation
\* context of writer w.  The result is a Status code; "DBException" stands for the exception of
\* the match expression, rethrown with added context.
checkValidation(w, doc) ==
    IF ~validator.ok THEN "ValidatorError"
    ELSE IF ~validator.filter THEN "OK"
    ELSE IF validationLevelOrDefault(validationLevel) = "off" THEN "OK"
    ELSE IF validationDisabled[w] THEN "OK"
    ELSE IF isTemporaryReshardingCollection THEN "OK"
    ELSE IF apiStrictError[w] THEN "APIStrictError"
    ELSE IF doc.matches = "match" THEN "OK"
    ELSE IF /\ doc.matches = "throw"
            /\ ~isFCVAtLeast47
            /\ validationActionOrDefault(validationAction) = "error"
         THEN "DBException"
    ELSE IF validationActionOrDefault(validationAction) = "warn" THEN "OK"
    ELSE "DocumentValidationFailure"

\* ----------------------------------------------------- operation records
\* The last operation of a writer: its name, the Status it returned (or the
\* exception it threw; "pending" while it waits for the capped deleter) and
\* the calls it made on the record store, the index catalog, the OpObserver
\* and the recovery unit, in order.
Op(name, status, steps) == [name |-> name, status |-> status, steps |-> steps]

NoOp == Op("none", "OK", <<>>)

\* The recovery unit an operation context holds and its
\* WriteUnitOfWork::RecoveryUnitState.
RecoveryUnit(unit, state) == [unit |-> unit, state |-> state]

\* What a unit of work has done so far: the number of its inserts, the
\* record ids of its most recent insert, whether an eviction that was due
\* for one of its inserts was skipped or abandoned, and whether an eviction
\* that is part of it has saved the resume pointer; ru is the recovery unit
\* of the operation context.
Uow0 == [inserts |-> 0, batch |-> {}, unevicted |-> FALSE, saved |-> FALSE,
         ru |-> RecoveryUnit("caller", "kNotInUnitOfWork")]

\* The arguments of the last insert or update call.
NoArgs == [batch |-> <<>>, loc |-> NullId, old |-> NoDoc, new |-> NoDoc,
           fp |-> FALSE]

InsertArgs(batch, fp) == [NoArgs EXCEPT !.batch = batch, !.fp = fp]

UpdateArgs(loc, old, new) == [NoArgs EXCEPT !.loc = loc, !.old = old, !.new = new]

\* History: the same about the most recent committed unit of work that
\* inserted.
Hist0 == Uow0

\* ------------------------------------------------------ capped eviction
\* CollectionImpl::_cappedAndNeedDelete, on the counters the store reports.
cappedAndNeedDelete(size, count) ==
    IF ~IsCappedColl THEN FALSE
    ELSE IF selfManagedTruncation THEN FALSE
    ELSE IF size > cappedMaxSize THEN TRUE
    ELSE IF cappedMaxDocs # 0 /\ count > cappedMaxDocs THEN TRUE
    ELSE FALSE

\* Variant: the attempt goes ahead whenever the collection is over a cap.
cappedDeleteGoesAheadAlways(w, size, count) == cappedAndNeedDelete(size, count)

\* The early returns of _cappedDeleteAsNeeded before it takes the mutex:
\* TRUE when the eviction attempt goes ahead.
cappedDeleteGoesAhead(w, size, count) ==
    /\ cappedAndNeedDelete(size, count)
    /\ ~(~useOldCappedDeleteBehaviour /\ ~enforcing[w])
    /\ ~(useOldCappedDeleteBehaviour /\ ~needsSizeAdjustment)

\* Variant: the whole data size is to be removed.
sizeOverCapWhole(size) == size

\* sizeOverCap / docsOverCap of _cappedDeleteAsNeeded.
sizeOverCapOf(size) == IF size > cappedMaxSize THEN size - cappedMaxSize ELSE 0

\* Variant: the document cap is left out of the amount to remove.
docsOverCapNone(count) == 0

docsOverCapOf(count) ==
    IF cappedMaxDocs # 0 /\ count > cappedMaxDocs THEN count - cappedMaxDocs ELSE 0

\* Variant: the loop goes on only while both caps are exceeded.
evictionContinuesBoth(sizeSaved, sizeOverCap, docsRemoved, docsOverCap) ==
    sizeSaved < sizeOverCap /\ docsRemoved < docsOverCap

\* The loop condition of the eviction loop.
evictionContinues(sizeSaved, sizeOverCap, docsRemoved, docsOverCap) ==
    sizeSaved < sizeOverCap \/ docsRemoved < docsOverCap

\* "We're prohibited from deleting what was just inserted."
isJustInserted(id, just) == id = just

\* Variant: no record is handed over.
justInsertedNone(firstId, count) == NullId

\* Variant: the last record of the batch is handed over.
justInsertedLast(firstId, count) == firstId + count - 1

\* The record id an insert hands to _cappedDeleteAsNeeded: records.begin()->id.
justInsertedOf(firstId, count) == firstId

RECURSIVE SortedSeq(_)
\* The record ids of set s in forward cursor order.
SortedSeq(s) ==
    IF s = {} THEN <<>>
    ELSE LET m == SetMin(s) IN <<m>> \o SortedSeq(s \ {m})

\* Where the eviction cursor starts: seekExact(_cappedFirstRecord) when the
\* pointer is set (no record if the seek finds none), else the first record.
\* The result is the sequence of records from the cursor position onwards.
cursorStart(visible, first) ==
    IF first # NullId
    THEN IF first \in visible
         THEN SortedSeq({r \in visible : r >= first})
         ELSE <<>>
    ELSE SortedSeq(visible)

RECURSIVE evictionLoop(_, _, _, _, _, _, _, _)
\* The while loop of _cappedDeleteAsNeeded.  cands: the records from the
\* cursor onwards; conflicts: the records whose delete raises a
\* WriteConflictException.  Yields the records removed (in order), the
\* record the cursor stopped on (NullId if none) and whether a conflict
\* ended the loop.
evictionLoop(cands, just, sizeOverCap, docsOverCap, sizeSaved, docsRemoved, removed, conflicts) ==
    IF ~evictionContinues(sizeSaved, sizeOverCap, docsRemoved, docsOverCap)
    THEN [removed |-> removed, conflict |-> FALSE,
          stop |-> IF cands = <<>> THEN NullId ELSE Head(cands)]
    ELSE IF cands = <<>>
    THEN [removed |-> removed, conflict |-> FALSE, stop |-> NullId]
    ELSE IF isJustInserted(Head(cands), just)
    THEN [removed |-> removed, conflict |-> FALSE, stop |-> Head(cands)]
    ELSE IF Head(cands) \in conflicts
    THEN [removed |-> removed, conflict |-> TRUE, stop |-> Head(cands)]
    ELSE evictionLoop(Tail(cands), just, sizeOverCap, docsOverCap,
                      sizeSaved + docs[Head(cands)].size, docsRemoved + 1,
                      Append(removed, Head(cands)), conflicts)

\* Variant: the record is deleted while the cursor is still on it.
evictionStepsDeleteFirst ==
    (IF ~useOldCappedDeleteBehaviour /\ isReplicated
     THEN <<"aboutToDelete", "onDelete">> ELSE <<>>)
    \o <<"unindexRecord", "deleteRecord", "cursorNext">>

\* The steps the loop body performs for one record.
evictionSteps ==
    (IF ~useOldCappedDeleteBehaviour /\ isReplicated
     THEN <<"aboutToDelete", "onDelete">> ELSE <<>>)
    \o <<"unindexRecord", "cursorNext", "deleteRecord">>

RECURSIVE Repeat(_, _)
Repeat(steps, n) == IF n = 0 THEN <<>> ELSE steps \o Repeat(steps, n - 1)

SeqToSet(q) == {q[i] : i \in 1..Len(q)}

\* Records of writer w's snapshot that a delete by w conflicts on: deleted
\* by another open unit of work, or already deleted by a committed one.
ConflictsFor(w) ==
    {r \in Visible(w) :
        \/ \E o \in Writers \ {w} : r \in del[o]
        \/ r \notin live /\ r \notin ins[w]}

\* The side transaction of the old behaviour reads the committed records
\* and conflicts with every uncommitted delete.
SideVisible == live
SideConflicts == live \cap AllDel

\* ---------------------------------------------------------- unit of work
\* WriteUnitOfWork wuow(opCtx): the writer opens a unit of work; its
\* recovery unit reads the records committed so far.
BeginUnitOfWork(w, enf, bypass, apiErr) ==
    /\ pc[w] = "idle"
    /\ pc' = [pc EXCEPT ![w] = "uow"]
    /\ snap' = [snap EXCEPT ![w] = live]
    /\ enforcing' = [enforcing EXCEPT ![w] = enf]
    /\ validationDisabled' = [validationDisabled EXCEPT ![w] = bypass]
    /\ apiStrictError' = [apiStrictError EXCEPT ![w] = apiErr]
    /\ lastOp' = [lastOp EXCEPT ![w] = NoOp]
    /\ uow' = [uow EXCEPT ![w].ru.state = "kActiveUnitOfWork"]
    /\ UNCHANGED <<cfgVars, notifierVars, instanceVars, execVars, nextId, docs, live, ins, del, undo, indexVars,
                   cappedVars, metaLock, justInserted, commitHooks,
                   rollbackHooks, hist>>

\* What ends with the unit of work, whether it commits or aborts.
EndUnitOfWork(w) ==
    /\ pc' = [pc EXCEPT ![w] = "idle"]
    /\ ins' = [ins EXCEPT ![w] = {}]
    /\ del' = [del EXCEPT ![w] = {}]
    /\ snap' = [snap EXCEPT ![w] = {}]
    /\ undo' = [undo EXCEPT ![w] = [r \in RecordIds |-> NoDoc]]
    /\ ixAdded' = [ixAdded EXCEPT ![w] = {}]
    /\ ixRemoved' = [ixRemoved EXCEPT ![w] = {}]
    /\ metaLock' = IF metaLock = w THEN NoWriter ELSE metaLock
    /\ justInserted' = [justInserted EXCEPT ![w] = NullId]
    /\ commitHooks' = [commitHooks EXCEPT ![w] = 0]
    /\ rollbackHooks' = [rollbackHooks EXCEPT ![w] = 0]
    /\ enforcing' = [enforcing EXCEPT ![w] = TRUE]
    /\ validationDisabled' = [validationDisabled EXCEPT ![w] = FALSE]
    /\ apiStrictError' = [apiStrictError EXCEPT ![w] = FALSE]
    /\ uow' = [uow EXCEPT ![w] = Uow0]

\* SharedState::haveCappedWaiters: _cappedNotifier.use_count() > 1, the
\* waiters being the other holders of the notifier.
haveCappedWaiters == cappedWaiters # {}

\* Variant: waiters are notified whether or not a handler is registered.
notifyCappedWaitersAlways(hooks) == notified \cup cappedWaiters

\* SharedState::notifyCappedWaitersIfNeeded, run by each of the hooks
\* registered onCommit handlers: the readers woken afterwards.
notifyCappedWaitersIfNeeded(hooks) ==
    IF hooks > 0 /\ haveCappedWaiters
    THEN notified \cup cappedWaiters
    ELSE notified

\* wuow.commit(): the writes become visible to later snapshots; the
\* onCommit handlers run (notifyCappedWaitersIfNeeded).
Commit(w) ==
    /\ pc[w] = "uow"
    /\ notified' = notifyCappedWaitersIfNeeded(commitHooks[w])
    /\ UNCHANGED cappedWaiters
    /\ live' = (live \cup ins[w]) \ del[w]
    /\ lastOp' = [lastOp EXCEPT ![w] =
                     Op("commit", "OK", Repeat(<<"notifyCappedWaiters">>,
                                               commitHooks[w]))]
    /\ EndUnitOfWork(w)
    /\ docs' = [r \in RecordIds |-> IF Referenced(r)' THEN docs[r] ELSE NoDoc]
    /\ hist' = IF uow[w].inserts > 0 THEN uow[w] ELSE hist
    /\ UNCHANGED <<cfgVars, instanceVars, execVars, nextId, indexKeys,
                   cappedVars>>

\* Variant: the handler leaves the pointer as it is.
onRollbackKeep(hooks, first) == first

\* The onRollback handler of _cappedDeleteAsNeeded, run once per
\* registration: _cappedFirstRecord = RecordId().
onRollbackReset(hooks, first) == IF hooks > 0 THEN NullId ELSE first

\* The unit of work aborts: the recovery unit undoes its writes and runs the
\* onRollback handlers; the handler of _cappedDeleteAsNeeded takes the
\* capped-deleter mutex and resets _cappedFirstRecord.
Rollback(w) ==
    /\ pc[w] \in {"uow", "failed"}
    /\ rollbackHooks[w] > 0 => cappedDeleterMutex = NoWriter
    /\ indexKeys' = (indexKeys \ ixAdded[w]) \cup ixRemoved[w]
    /\ cappedFirstRecord' = onRollbackReset(rollbackHooks[w], cappedFirstRecord)
    /\ lastOp' = [lastOp EXCEPT ![w] =
                     Op("rollback", "OK", Repeat(<<"clearCappedFirstRecord">>,
                                                 rollbackHooks[w]))]
    /\ EndUnitOfWork(w)
    /\ live' = live
    /\ docs' = [r \in RecordIds |->
                   IF ~Referenced(r)' THEN NoDoc
                   ELSE IF undo[w][r] # NoDoc THEN undo[w][r]
                   ELSE docs[r]]
    /\ UNCHANGED <<cfgVars, notifierVars, instanceVars, execVars, nextId, cappedDeleterMutex, hist>>

\* ------------------------------------------------------- capped waiters
\* What a waiter's steps leave alone.
WaiterFrame ==
    UNCHANGED <<cfgVars, instanceVars, execVars, storeVars, indexVars,
                cappedVars, metaLock, opVars, hist>>

\* A read operation on a capped collection takes the notifier
\* (getCappedInsertNotifier) and waits on it for inserts.
getCappedInsertNotifier(r) ==
    /\ isCapped
    /\ r \notin cappedWaiters
    /\ cappedWaiters' = cappedWaiters \cup {r}
    /\ UNCHANGED notified
    /\ WaiterFrame

\* The read operation ends and lets go of the notifier.
releaseCappedInsertNotifier(r) ==
    /\ r \in cappedWaiters
    /\ cappedWaiters' = cappedWaiters \ {r}
    /\ notified' = notified \ {r}
    /\ WaiterFrame

\* ---------------------------------------------------------------- insert
RECURSIVE firstFailureUnkeyed(_, _)
\* Variant: the loop does not look for _id.
firstFailureUnkeyed(w, batch) ==
    IF batch = <<>> THEN "OK"
    ELSE IF checkValidation(w, Head(batch)) # "OK"
         THEN checkValidation(w, Head(batch))
    ELSE firstFailureUnkeyed(w, Tail(batch))

RECURSIVE firstFailureFirstOnly(_, _)
\* Variant: the loop looks at the first document only.
firstFailureFirstOnly(w, batch) ==
    IF batch = <<>> THEN "OK"
    ELSE IF hasIdIndex /\ Head(batch).idField = 0 THEN "InternalError"
    ELSE checkValidation(w, Head(batch))

RECURSIVE firstFailure(_, _)
\* The per-document loop of insertDocuments: the Status of the first
\* document that lacks _id while an _id index exists or that fails
\* checkValidation; "OK" when every document passes.
firstFailure(w, batch) ==
    IF batch = <<>> THEN "OK"
    ELSE IF hasIdIndex /\ Head(batch).idField = 0 THEN "InternalError"
    ELSE IF checkValidation(w, Head(batch)) # "OK"
         THEN checkValidation(w, Head(batch))
    ELSE firstFailure(w, Tail(batch))

\* An operation that returns (or throws) without touching anything.
Refuse(w, name, status) ==
    /\ lastOp' = [lastOp EXCEPT ![w] = Op(name, status, <<>>)]
    /\ UNCHANGED <<cfgVars, notifierVars, instanceVars, execVars, storeVars, indexVars, cappedVars, metaLock, pc,
                   ctxVars, justInserted, commitHooks, rollbackHooks, hist,
                   uow>>

\* The X lock on the collection's metadata resource, held until the end of
\* the unit of work, that inserts and updates of a capped collection outside
\* "local" take.
CanLockMetadata(w) == needCappedLock => metaLock \in {NoWriter, w}

\* Variant: the lock is released when the block that takes it is left.
LockMetadataForBlock(w) == metaLock

LockMetadata(w) == IF needCappedLock THEN w ELSE metaLock

\* Variant: batches are never refused.
cannotBeBatchedNever(batch) == FALSE

\* The test at the head of _insertDocuments: inserts into an indexed capped
\* collection are done one at a time.
cannotBeBatched(batch) == IsCappedColl /\ haveAnyIndexes /\ Len(batch) > 1

\* Variant: the index entries of the batch are not written.
WriteAndEvictUnindexed(w, name, batch, indexIt, steps) ==
    LET n == Len(batch)
        ids == nextId..(nextId + n - 1)
        size == dataSize + SeqSizes(batch)
        count == numRecords + n
        due == cappedAndNeedDelete(size, count)
        go == cappedDeleteGoesAhead(w, size, count)
    IN  /\ nextId' = nextId + n
        /\ docs' = [r \in RecordIds |->
                       IF r \in ids THEN batch[r - nextId + 1] ELSE docs[r]]
        /\ ins' = [ins EXCEPT ![w] = @ \cup ids]
        /\ justInserted' = [justInserted EXCEPT ![w] =
                               IF go THEN justInsertedOf(nextId, n) ELSE NullId]
        /\ pc' = [pc EXCEPT ![w] = IF go THEN "cappedWait" ELSE "uow"]
        /\ commitHooks' = [commitHooks EXCEPT ![w] = IF go THEN @ ELSE @ + 1]
        /\ lastOp' = [lastOp EXCEPT ![w] =
                         IF go THEN Op(name, "pending", steps)
                         ELSE Op(name, "OK", Append(steps, "onCommit"))]
        /\ uow' = [uow EXCEPT ![w].inserts = @ + 1, ![w].batch = ids,
                              ![w].unevicted = @ \/ (due /\ ~go)]
        /\ UNCHANGED <<cfgVars, notifierVars, instanceVars, execVars, live, del, snap, undo, indexVars, cappedVars,
                       ctxVars, rollbackHooks, hist>>

\* The tail shared by the insert entry points: the records are written
\* (insertRecords), indexed when indexIt, the steps so far are logged, and
\* _cappedDeleteAsNeeded(justInserted) is entered: either it returns at once
\* and the insert completes (the onCommit handler is registered), or the
\* writer goes on to take the capped-deleter mutex.
WriteAndEvict(w, name, batch, indexIt, steps) ==
    LET n == Len(batch)
        ids == nextId..(nextId + n - 1)
        size == dataSize + SeqSizes(batch)
        count == numRecords + n
        due == cappedAndNeedDelete(size, count)
        go == cappedDeleteGoesAhead(w, size, count)
    IN  /\ nextId' = nextId + n
        /\ docs' = [r \in RecordIds |->
                       IF r \in ids THEN batch[r - nextId + 1] ELSE docs[r]]
        /\ ins' = [ins EXCEPT ![w] = @ \cup ids]
        /\ indexKeys' = IF indexIt /\ haveAnyIndexes
                        THEN indexKeys \cup ids ELSE indexKeys
        /\ ixAdded' = IF indexIt /\ haveAnyIndexes
                      THEN [ixAdded EXCEPT ![w] = @ \cup ids] ELSE ixAdded
        /\ justInserted' = [justInserted EXCEPT ![w] =
                               IF go THEN justInsertedOf(nextId, n) ELSE NullId]
        /\ pc' = [pc EXCEPT ![w] = IF go THEN "cappedWait" ELSE "uow"]
        /\ commitHooks' = [commitHooks EXCEPT ![w] = IF go THEN @ ELSE @ + 1]
        /\ lastOp' = [lastOp EXCEPT ![w] =
                         IF go THEN Op(name, "pending", steps)
                         ELSE Op(name, "OK", Append(steps, "onCommit"))]
        /\ uow' = [uow EXCEPT ![w].inserts = @ + 1, ![w].batch = ids,
                              ![w].unevicted = @ \/ (due /\ ~go)]
        /\ UNCHANGED <<cfgVars, notifierVars, instanceVars, execVars, live, del, snap, undo, ixRemoved, cappedVars,
                       ctxVars, rollbackHooks, hist>>

\* CollectionImpl::insertDocuments (with _insertDocuments).
\*   fp      : the failCollectionInserts fail point is set
\*   storage : "ok", or the step of the record store / index catalog that
\*             returns an error: "insertFails", "indexFails"
insertDocuments(w, batch, fp, storage) ==
    /\ pc[w] = "uow"
    /\ IF fp THEN Refuse(w, "insertDocuments", "FailPointEnabled")
       ELSE IF firstFailure(w, batch) # "OK"
       THEN Refuse(w, "insertDocuments", firstFailure(w, batch))
       ELSE IF cannotBeBatched(batch)
       THEN Refuse(w, "insertDocuments", "OperationCannotBeBatched")
       ELSE /\ CanLockMetadata(w)
            /\ metaLock' = LockMetadata(w)
            /\ IF storage = "insertFails"
               THEN /\ lastOp' = [lastOp EXCEPT ![w] =
                         Op("insertDocuments", "StorageError", <<"insertRecords">>)]
                    /\ UNCHANGED <<cfgVars, notifierVars, instanceVars, execVars, storeVars, indexVars, cappedVars,
                                   pc, ctxVars, justInserted, commitHooks,
                                   rollbackHooks, hist, uow>>
               ELSE IF storage = "indexFails"
               THEN /\ nextId' = nextId + Len(batch)
                    /\ docs' = [r \in RecordIds |->
                                  IF r \in nextId..(nextId + Len(batch) - 1)
                                  THEN batch[r - nextId + 1] ELSE docs[r]]
                    /\ ins' = [ins EXCEPT ![w] =
                                  @ \cup nextId..(nextId + Len(batch) - 1)]
                    /\ lastOp' = [lastOp EXCEPT ![w] =
                          Op("insertDocuments", "IndexError",
                             <<"insertRecords", "indexRecords">>)]
                    /\ UNCHANGED <<cfgVars, notifierVars, instanceVars, execVars, live, del, snap, undo, indexVars,
                                   cappedVars, pc, ctxVars, justInserted,
                                   commitHooks, rollbackHooks, hist, uow>>
               ELSE WriteAndEvict(w, "insertDocuments", batch, TRUE,
                                  <<"insertRecords", "indexRecords", "onInserts">>)

\* CollectionImpl::insertDocumentsForOplog: the invariants at its head are
\* its precondition.
insertDocumentsForOplog(w, batch, storage) ==
    /\ pc[w] = "uow"
    /\ validator.ok /\ ~validator.filter /\ ~haveAnyIndexes
    /\ IF storage # "ok"
       THEN /\ lastOp' = [lastOp EXCEPT ![w] =
                 Op("insertDocumentsForOplog", "StorageError", <<"insertRecords">>)]
            /\ UNCHANGED <<cfgVars, notifierVars, instanceVars, execVars, storeVars, indexVars, cappedVars, metaLock,
                           pc, ctxVars, justInserted, commitHooks,
                           rollbackHooks, hist, uow>>
       ELSE /\ WriteAndEvict(w, "insertDocumentsForOplog", batch, FALSE,
                             <<"insertRecords">>)
            /\ UNCHANGED metaLock

\* CollectionImpl::insertDocumentForBulkLoader.
\*   cb : the Status the onRecordInserted callback returns
insertDocumentForBulkLoader(w, doc, fp, storage, cb) ==
    /\ pc[w] = "uow"
    /\ IF fp THEN Refuse(w, "insertDocumentForBulkLoader", "FailPointEnabled")
       ELSE IF checkValidation(w, doc) # "OK"
       THEN Refuse(w, "insertDocumentForBulkLoader", checkValidation(w, doc))
       ELSE IF storage # "ok"
       THEN /\ lastOp' = [lastOp EXCEPT ![w] =
                 Op("insertDocumentForBulkLoader", "StorageError", <<"insertRecord">>)]
            /\ UNCHANGED <<cfgVars, notifierVars, instanceVars, execVars, storeVars, indexVars, cappedVars, metaLock,
                           pc, ctxVars, justInserted, commitHooks,
                           rollbackHooks, hist, uow>>
       ELSE /\ WriteAndEvict(w, "insertDocumentForBulkLoader", <<doc>>, FALSE,
                             <<"insertRecord", "onRecordInserted:" \o cb,
                               "onInserts">>)
            /\ UNCHANGED metaLock

\* ------------------------------------------------- _cappedDeleteAsNeeded
\* Variant: the writer does not wait for the mutex.
cappedDeleteLockNoWait(w) ==
    /\ pc[w] = "cappedWait"
    /\ cappedDeleterMutex' = w
    /\ pc' = [pc EXCEPT ![w] = "capped"]
    /\ UNCHANGED <<cfgVars, notifierVars, instanceVars, execVars, storeVars, indexVars, cappedFirstRecord, metaLock,
                   ctxVars, justInserted, commitHooks, rollbackHooks,
                   lastOp, hist, uow>>

\* stdx::lock_guard<Latch> lk(_shared->_cappedDeleterMutex): the writer that
\* found an eviction due waits for the mutex and takes it.
cappedDeleteLock(w) ==
    /\ pc[w] = "cappedWait"
    /\ cappedDeleterMutex = NoWriter
    /\ cappedDeleterMutex' = w
    /\ pc' = [pc EXCEPT ![w] = "capped"]
    /\ UNCHANGED <<cfgVars, notifierVars, instanceVars, execVars, storeVars, indexVars, cappedFirstRecord, metaLock,
                   ctxVars, justInserted, commitHooks, rollbackHooks,
                   lastOp, hist, uow>>

\* The result of the eviction loop for writer w holding the mutex: the
\* counters are read, the cursor is positioned and the loop runs, in the
\* caller's recovery unit or (old behaviour) in the side transaction.
evictionOf(w) ==
    evictionLoop(cursorStart(IF useOldCappedDeleteBehaviour
                             THEN SideVisible ELSE Visible(w),
                             cappedFirstRecord),
                 justInserted[w],
                 sizeOverCapOf(dataSize), docsOverCapOf(numRecords),
                 0, 0, <<>>,
                 IF useOldCappedDeleteBehaviour
                 THEN SideConflicts ELSE ConflictsFor(w))

\* Variant: no position is remembered.
savedFirstRecordNone(stop) == NullId

\* The value saved to _cappedFirstRecord when the loop has ended normally:
\* the id of the record the cursor is on, RecordId() if there is none.
savedFirstRecord(stop) == stop

\* The insert that called _cappedDeleteAsNeeded completes: it registers its
\* onCommit handler and returns OK.
insertReturns(w, steps) ==
    /\ commitHooks' = [commitHooks EXCEPT ![w] = @ + 1]
    /\ lastOp' = [lastOp EXCEPT ![w] =
           Op(@.name, "OK", @.steps \o steps \o <<"onCommit">>)]
    /\ pc' = [pc EXCEPT ![w] = "uow"]

\* Lines 894-991 under the mutex, new behaviour (FCV >= 5.0): the deletes
\* are part of the caller's unit of work.  A write conflict propagates: the
\* nested unit of work is destroyed uncommitted, which fails the caller's.
cappedDeleteIntegrated(w) ==
    LET e == evictionOf(w)
        gone == SeqToSet(e.removed)
    IN  /\ ~useOldCappedDeleteBehaviour
        /\ del' = [del EXCEPT ![w] = @ \cup (gone \ ins[w])]
        /\ ins' = [ins EXCEPT ![w] = @ \ gone]
        /\ indexKeys' = indexKeys \ gone
        /\ ixRemoved' = [ixRemoved EXCEPT ![w] = @ \cup ((gone \cap indexKeys) \ ixAdded[w])]
        /\ ixAdded' = [ixAdded EXCEPT ![w] = @ \ gone]
        /\ IF e.conflict
           THEN /\ pc' = [pc EXCEPT ![w] = "failed"]
                /\ lastOp' = [lastOp EXCEPT ![w] =
                       Op(@.name, "WriteConflict",
                          @.steps \o Repeat(evictionSteps, Len(e.removed)))]
                /\ uow' = [uow EXCEPT ![w].unevicted = TRUE]
                /\ UNCHANGED <<cappedFirstRecord, rollbackHooks, commitHooks>>
           ELSE /\ cappedFirstRecord' = savedFirstRecord(e.stop)
                /\ rollbackHooks' = [rollbackHooks EXCEPT ![w] = @ + 1]
                /\ insertReturns(w, Repeat(evictionSteps, Len(e.removed))
                                    \o <<"onRollback">>)
                /\ uow' = [uow EXCEPT ![w].saved = TRUE]
        /\ UNCHANGED <<live, snap, docs>>

\* CappedDeleteSideTxn(opCtx): the operation's recovery unit and its state
\* are set aside and a new recovery unit, in no unit of work, is installed.
CappedDeleteSideTxnCtor(ru) ==
    [active |-> RecoveryUnit("side", "kNotInUnitOfWork"),
     originalRecoveryUnit |-> ru.unit,
     originalRecoveryUnitState |-> ru.state]

\* Variant: the side recovery unit stays installed.
CappedDeleteSideTxnDtorKeeps(side) == side.active

\* ~CappedDeleteSideTxn(): the side recovery unit is released and the
\* original one is installed again with its original state.
CappedDeleteSideTxnDtor(side) ==
    RecoveryUnit(side.originalRecoveryUnit, side.originalRecoveryUnitState)

\* Variant: the side transaction lets the write conflict through.
cappedDeleteSideTxnThrows(w) ==
    LET e == evictionOf(w)
        gone == SeqToSet(e.removed)
    IN  /\ useOldCappedDeleteBehaviour
        /\ IF e.conflict
           THEN /\ pc' = [pc EXCEPT ![w] = "failed"]
                /\ lastOp' = [lastOp EXCEPT ![w] =
                       Op(@.name, "WriteConflict",
                          @.steps \o Repeat(evictionSteps, Len(e.removed)))]
                /\ uow' = [uow EXCEPT ![w].unevicted = TRUE]
                /\ UNCHANGED <<live, indexKeys, cappedFirstRecord, commitHooks>>
           ELSE /\ live' = live \ gone
                /\ indexKeys' = indexKeys \ gone
                /\ cappedFirstRecord' = savedFirstRecord(e.stop)
                /\ insertReturns(w, Repeat(evictionSteps, Len(e.removed))
                                    \o <<"onRollback", "sideCommit">>)
                /\ UNCHANGED uow
        /\ UNCHANGED <<ins, del, snap, ixAdded, ixRemoved, rollbackHooks>>
        /\ docs' = [r \in RecordIds |-> IF Referenced(r)' THEN docs[r] ELSE NoDoc]

\* Lines 894-991 under the mutex, old behaviour (FCV < 5.0): the deletes
\* run and commit in a side transaction (CappedDeleteSideTxn).  A write
\* conflict is logged and ignored: the side transaction aborts and the
\* insert goes on.  The onRollback handler is registered with the side
\* recovery unit, which commits right after.
cappedDeleteSideTxn(w) ==
    LET e == evictionOf(w)
        gone == SeqToSet(e.removed)
        side == CappedDeleteSideTxnCtor(uow[w].ru)
    IN  /\ useOldCappedDeleteBehaviour
        /\ IF e.conflict
           THEN /\ insertReturns(w, Repeat(evictionSteps, Len(e.removed)))
                /\ uow' = [uow EXCEPT ![w].unevicted = TRUE,
                                      ![w].ru = CappedDeleteSideTxnDtor(side)]
                /\ UNCHANGED <<live, indexKeys, cappedFirstRecord>>
           ELSE /\ live' = live \ gone
                /\ indexKeys' = indexKeys \ gone
                /\ cappedFirstRecord' = savedFirstRecord(e.stop)
                /\ insertReturns(w, Repeat(evictionSteps, Len(e.removed))
                                    \o <<"onRollback", "sideCommit">>)
                /\ uow' = [uow EXCEPT ![w].ru = CappedDeleteSideTxnDtor(side)]
        /\ UNCHANGED <<ins, del, snap, ixAdded, ixRemoved, rollbackHooks>>
        /\ docs' = [r \in RecordIds |-> IF Referenced(r)' THEN docs[r] ELSE NoDoc]

\* Variant: an attempt that a write conflict ends keeps the mutex.
cappedDeleteRunKeepsMutex(w) ==
    /\ pc[w] = "capped"
    /\ cappedDeleterMutex = w
    /\ cappedDeleterMutex' = (IF evictionOf(w).conflict THEN w ELSE NoWriter)
    /\ \/ cappedDeleteIntegrated(w)
       \/ cappedDeleteSideTxn(w)
    /\ UNCHANGED <<cfgVars, notifierVars, instanceVars, execVars, nextId, undo, metaLock, ctxVars, justInserted,
                   hist>>

\* The eviction attempt of the writer holding the mutex, from reading the
\* counters to leaving _cappedDeleteAsNeeded (which releases the mutex).
cappedDeleteRun(w) ==
    /\ pc[w] = "capped"
    /\ cappedDeleterMutex = w
    /\ cappedDeleterMutex' = NoWriter
    /\ \/ cappedDeleteIntegrated(w)
       \/ cappedDeleteSideTxn(w)
    /\ UNCHANGED <<cfgVars, notifierVars, instanceVars, execVars, nextId, undo, metaLock, ctxVars, justInserted,
                   hist>>

\* ------------------------------------------------------ update, delete
\* Variant: the old document is not looked at below level "strict".
updateValidationLax(w, old, new) ==
    LET status == checkValidation(w, new)
    IN  IF status = "OK" THEN "OK"
        ELSE IF status = "DBException" THEN status
        ELSE IF validationLevelOrDefault(validationLevel) = "strict" THEN status
        ELSE "OK"

\* Variant: every failure of the new document aborts the update.
updateValidationStrict(w, old, new) == checkValidation(w, new)

\* The validation block at the head of updateDocument: the Status (or
\* exception) it aborts the update with, "OK" when the update goes on.
updateValidation(w, old, new) ==
    LET status == checkValidation(w, new)
        oldDocStatus == checkValidation(w, old)
    IN  IF status = "OK" THEN "OK"
        ELSE IF status = "DBException" THEN status
        ELSE IF validationLevelOrDefault(validationLevel) = "strict" THEN status
        ELSE IF oldDocStatus = "DBException" THEN oldDocStatus
        ELSE IF oldDocStatus = "OK" THEN status
        ELSE "OK"

\* Variant: the new document is the one tested for a missing _id.
idMismatchNew(old, new) == new.idField # 0 /\ old.idField # new.idField

\* "in Collection::updateDocument _id mismatch" (uasserted 13596).
idMismatch(old, new) == old.idField # 0 /\ old.idField # new.idField

\* Variant: only growth is refused.
cappedSizeGrowth(old, new) == isCapped /\ old.size < new.size

\* "Cannot change the size of a document in a capped collection".
cappedSizeChange(old, new) == isCapped /\ old.size # new.size

\* An update that throws after it has taken the metadata lock, having made
\* the calls in steps.
updateThrows(w, status, steps) ==
    /\ lastOp' = [lastOp EXCEPT ![w] = Op("updateDocument", status, steps)]
    /\ UNCHANGED <<cfgVars, notifierVars, instanceVars, execVars, storeVars, indexVars, cappedVars, pc, ctxVars,
                   justInserted, commitHooks, rollbackHooks, hist, uow>>

\* CollectionImpl::updateDocument(oldLocation, oldDoc, newDoc,
\* indexesAffected): oldDoc is the document the caller's snapshot holds at
\* oldLocation.
\*   storage : "ok", or the call that fails: "updateFails", "indexFails"
updateDocument(w, loc, newDoc, indexesAffected, storage) ==
    LET oldDoc == docs[loc]
        steps == <<"updateRecord">>
                 \o (IF indexesAffected THEN <<"indexUpdateRecord">> ELSE <<>>)
    IN  /\ pc[w] = "uow"
        /\ loc \in Visible(w)
        /\ IF updateValidation(w, oldDoc, newDoc) # "OK"
           THEN Refuse(w, "updateDocument", updateValidation(w, oldDoc, newDoc))
           ELSE /\ CanLockMetadata(w)
                /\ metaLock' = LockMetadata(w)
                /\ IF idMismatch(oldDoc, newDoc)
                   THEN updateThrows(w, "Location13596", <<>>)
                   ELSE IF cappedSizeChange(oldDoc, newDoc)
                   THEN updateThrows(w, "CannotGrowDocumentInCappedNamespace",
                                     <<>>)
                   ELSE IF storage = "updateFails"
                   THEN updateThrows(w, "StorageError", <<"updateRecord">>)
                   ELSE /\ docs' = [docs EXCEPT ![loc] = newDoc]
                        /\ undo' = [undo EXCEPT ![w][loc] =
                                       IF @ = NoDoc /\ loc \notin ins[w]
                                       THEN oldDoc ELSE @]
                        /\ lastOp' = [lastOp EXCEPT ![w] =
                               IF indexesAffected /\ storage = "indexFails"
                               THEN Op("updateDocument", "IndexError", steps)
                               ELSE Op("updateDocument", "OK",
                                       Append(steps, "onUpdate"))]
                        /\ UNCHANGED <<cfgVars, notifierVars, instanceVars, execVars, nextId, live, ins, del, snap,
                                       indexVars, cappedVars, pc, ctxVars,
                                       justInserted, commitHooks,
                                       rollbackHooks, hist, uow>>

\* Variant: no caller is refused.
deleteRefusedNever(w) == FALSE

\* deleteDocument on a capped collection is refused for a caller that
\* enforces constraints.
deleteRefused(w) == isCapped /\ enforcing[w]

\* Variant: pre-image recording is not looked at.
deletedDocStoredForTxn(storeDeletedDoc, txnNumber) ==
    storeDeletedDoc /\ txnNumber

\* deleteDocument hands the document body to onDelete.
\*   storeDeletedDoc : the argument is Collection::StoreDeletedDoc::On
\*   txnNumber       : opCtx->getTxnNumber() is set
deletedDocStored(storeDeletedDoc, txnNumber) ==
    (storeDeletedDoc /\ txnNumber) \/ recordPreImages

\* The calls of a deleteDocument that is not refused, in order; those on
\* the capped-deleter mutex are made on a capped collection only.
deleteSteps(storeDeletedDoc, txnNumber) ==
    (IF isCapped THEN <<"lockCappedDeleter">> ELSE <<>>)
    \o <<"aboutToDelete", "unindexRecord", "deleteRecord">>
    \o (IF deletedDocStored(storeDeletedDoc, txnNumber)
        THEN <<"onDelete:deletedDoc">> ELSE <<"onDelete:none">>)
    \o (IF isCapped THEN <<"unlockCappedDeleter">> ELSE <<>>)

\* CollectionImpl::deleteDocument(doc, loc, storeDeletedDoc).  On a capped
\* collection the caller that enforces constraints is refused (uasserted
\* 10089); any other takes the capped-deleter mutex for the call.
deleteDocument(w, loc, storeDeletedDoc, txnNumber) ==
    /\ pc[w] = "uow"
    /\ loc \in Visible(w)
    /\ IF deleteRefused(w)
       THEN Refuse(w, "deleteDocument", "Location10089")
       ELSE /\ isCapped => cappedDeleterMutex = NoWriter
            /\ del' = [del EXCEPT ![w] = @ \cup ({loc} \ ins[w])]
            /\ ins' = [ins EXCEPT ![w] = @ \ {loc}]
            /\ indexKeys' = indexKeys \ {loc}
            /\ ixRemoved' = [ixRemoved EXCEPT ![w] =
                                @ \cup (({loc} \cap indexKeys) \ ixAdded[w])]
            /\ ixAdded' = [ixAdded EXCEPT ![w] = @ \ {loc}]
            /\ lastOp' = [lastOp EXCEPT ![w] =
                   Op("deleteDocument", "OK",
                      deleteSteps(storeDeletedDoc, txnNumber))]
            /\ UNCHANGED <<cfgVars, notifierVars, instanceVars, execVars, nextId, docs, live, snap, undo, cappedVars,
                           metaLock, pc, ctxVars, justInserted, commitHooks,
                           rollbackHooks, hist, uow>>

\* The collection X lock of truncate and cappedTruncateAfter: no other
\* operation has a unit of work open on the collection.
CollectionLockedX(w) == \A o \in Writers \ {w} : pc[o] = "idle"

\* Writer w's unit of work removes the records in gone and their index
\* entries.
RemoveRecords(w, gone) ==
    /\ del' = [del EXCEPT ![w] = @ \cup (gone \ ins[w])]
    /\ ins' = [ins EXCEPT ![w] = @ \ gone]
    /\ indexKeys' = indexKeys \ gone
    /\ ixRemoved' = [ixRemoved EXCEPT ![w] =
                        @ \cup ((gone \cap indexKeys) \ ixAdded[w])]
    /\ ixAdded' = [ixAdded EXCEPT ![w] = @ \ gone]

\* CollectionImpl::truncate(opCtx): the indexes are dropped, the record
\* store is truncated, the indexes are created again, empty.
\*   storage : "ok", or "truncateFails" (the record store's truncate fails)
truncate(w, storage) ==
    /\ pc[w] = "uow"
    /\ CollectionLockedX(w)
    /\ IF storage = "truncateFails"
       THEN /\ RemoveRecords(w, {})
            /\ lastOp' = [lastOp EXCEPT ![w] =
                   Op("truncate", "StorageError",
                      <<"dropAllIndexes", "truncate">>)]
       ELSE /\ RemoveRecords(w, Visible(w))
            /\ lastOp' = [lastOp EXCEPT ![w] =
                   Op("truncate", "OK",
                      <<"dropAllIndexes", "truncate",
                        "createIndexOnEmptyCollection">>)]
    /\ UNCHANGED <<cfgVars, notifierVars, instanceVars, execVars, nextId, docs, live, snap, undo,
                   cappedVars, metaLock, pc, ctxVars, justInserted,
                   commitHooks, rollbackHooks, hist, uow>>

\* CollectionImpl::cappedTruncateAfter(opCtx, end, inclusive): the record
\* store removes the records after end (and end itself when inclusive); it
\* has their index entries removed through the capped callback.
cappedTruncateAfter(w, end, inclusive) ==
    /\ pc[w] = "uow"
    /\ CollectionLockedX(w)
    /\ isCapped
    /\ end \in Visible(w)
    /\ RemoveRecords(w, {r \in Visible(w) : r > end \/ (inclusive /\ r = end)})
    /\ lastOp' = [lastOp EXCEPT ![w] =
           Op("cappedTruncateAfter", "OK", <<"cappedTruncateAfter">>)]
    /\ UNCHANGED <<cfgVars, notifierVars, instanceVars, execVars, nextId, docs, live, snap, undo,
                   cappedVars, metaLock, pc, ctxVars, justInserted,
                   commitHooks, rollbackHooks, hist, uow>>

\* ----------------------------------------------------- in-place update
\* CollectionImpl::updateWithDamagesSupported.
\*   rsSupported : _shared->_recordStore->updateWithDamagesSupported()
updateWithDamagesSupported(rsSupported) ==
    IF ~validator.ok \/ validator.filter THEN FALSE ELSE rsSupported

\* Variant: the pre-image is taken from the record after the patch.
preImageAfterDamages(argsPreImage, oldDoc, newDoc) ==
    IF argsPreImage = NoDoc /\ recordPreImages THEN newDoc ELSE argsPreImage

\* args->preImageDoc after the head of updateDocumentWithDamages: an owned
\* copy of oldRec when the caller has set none and pre-images are recorded.
preImageForDamages(argsPreImage, oldDoc, newDoc) ==
    IF argsPreImage = NoDoc /\ recordPreImages THEN oldDoc ELSE argsPreImage

\* The CollectionUpdateArgs as updateDocumentWithDamages leaves them:
\* preImageDoc (old) and updatedDoc (new).
DamagesArgs(loc, preImageDoc, updatedDoc) ==
    [NoArgs EXCEPT !.loc = loc, !.old = preImageDoc, !.new = updatedDoc]

\* CollectionImpl::updateDocumentWithDamages(loc, oldRec, damageSource,
\* damages, args): oldRec is the record of the caller's snapshot at loc,
\* newDoc what the damages make of it.
\*   argsPreImage : args->preImageDoc on entry (NoDoc: not set)
\*   rsSupported  : the record store supports in-place updates
\*   storage      : "ok", or "updateFails" (updateWithDamages fails)
updateDocumentWithDamages(w, loc, newDoc, argsPreImage, rsSupported, storage) ==
    LET oldDoc == docs[loc]
        preImageDoc == preImageForDamages(argsPreImage, oldDoc, newDoc)
    IN  /\ pc[w] = "uow"
        /\ loc \in Visible(w)
        /\ IF ~updateWithDamagesSupported(rsSupported)
           THEN /\ Refuse(w, "updateDocumentWithDamages", "InvariantFailure")
                /\ lastArgs' = DamagesArgs(loc, argsPreImage, NoDoc)
           ELSE IF storage = "updateFails"
           THEN /\ lastOp' = [lastOp EXCEPT ![w] =
                       Op("updateDocumentWithDamages", "StorageError",
                          <<"updateWithDamages">>)]
                /\ lastArgs' = DamagesArgs(loc, preImageDoc, NoDoc)
                /\ UNCHANGED <<cfgVars, notifierVars, instanceVars, execVars, storeVars, indexVars,
                               cappedVars, metaLock, pc, ctxVars, justInserted,
                               commitHooks, rollbackHooks, hist, uow>>
           ELSE /\ docs' = [docs EXCEPT ![loc] = newDoc]
                /\ undo' = [undo EXCEPT ![w][loc] =
                               IF @ = NoDoc /\ loc \notin ins[w]
                               THEN oldDoc ELSE @]
                /\ lastOp' = [lastOp EXCEPT ![w] =
                       Op("updateDocumentWithDamages", "OK",
                          <<"updateWithDamages", "onUpdate">>)]
                /\ lastArgs' = DamagesArgs(loc, preImageDoc, newDoc)
                /\ UNCHANGED <<cfgVars, notifierVars, instanceVars, execVars, nextId, live, ins, del,
                               snap, indexVars, cappedVars, metaLock, pc,
                               ctxVars, justInserted, commitHooks,
                               rollbackHooks, hist, uow>>

\* ---------------------------------------------- validator compilation
\* Validator documents: none, one that parses, one that parses only while
\* encryption keywords are allowed, one that does not parse.
ValidatorSpecs == {"empty", "wellFormed", "encrypted", "malformed"}

\* Collection::Validator : the raw document, whether the StatusWith of the
\* filter is OK, whether it holds a match expression.
Validator(validatorDoc, ok, filter) ==
    [validatorDoc |-> validatorDoc, ok |-> ok, filter |-> filter]

\* The Validator of an instance that was not initialised.
NoValidator == Validator("empty", TRUE, FALSE)

\* checkValidatorCanBeUsedOnNs(validator, nss, uuid).
checkValidatorCanBeUsedOnNs(validatorDoc) ==
    IF validatorDoc = "empty" THEN "OK"
    ELSE IF isTemporaryReshardingCollection THEN "OK"
    ELSE IF ns = "system" THEN "InvalidOptions"
    ELSE IF ns = "local" THEN "InvalidOptions"
    ELSE "OK"

\* validatePreImageRecording(opCtx, ns).
validatePreImageRecording ==
    IF ns = "local" THEN "InvalidOptions"
    ELSE IF clusterRole # "None" THEN "InvalidOptions"
    ELSE "OK"

\* MatchExpressionParser::parse(validator, expCtx, ..., allowedFeatures) is
\* OK: the parser is external; a document parses or not, one with
\* encryption keywords only when the feature set allows them.
matchExpressionParses(validatorDoc, allowEncryptKeywords) ==
    \/ validatorDoc = "wellFormed"
    \/ validatorDoc = "encrypted" /\ allowEncryptKeywords

\* Variant: a document that does not parse is replaced by the empty one.
parseValidatorDropsDoc(validatorDoc, allowEncryptKeywords, failPoint) ==
    IF failPoint \/ validatorDoc = "empty"
    THEN Validator(validatorDoc, TRUE, FALSE)
    ELSE IF checkValidatorCanBeUsedOnNs(validatorDoc) # "OK"
    THEN Validator("empty", FALSE, FALSE)
    ELSE IF matchExpressionParses(validatorDoc, allowEncryptKeywords)
    THEN Validator(validatorDoc, TRUE, TRUE)
    ELSE Validator("empty", FALSE, FALSE)

\* CollectionImpl::parseValidator(opCtx, validator, allowedFeatures).
\* failPoint: allowSettingMalformedCollectionValidators is set.
parseValidator(validatorDoc, allowEncryptKeywords, failPoint) ==
    IF failPoint THEN Validator(validatorDoc, TRUE, FALSE)
    ELSE IF validatorDoc = "empty" THEN Validator(validatorDoc, TRUE, FALSE)
    ELSE IF checkValidatorCanBeUsedOnNs(validatorDoc) # "OK"
    THEN Validator(validatorDoc, FALSE, FALSE)
    ELSE IF ~matchExpressionParses(
               validatorDoc,
               /\ allowEncryptKeywords
               /\ validationActionOrDefault(validationAction) # "warn"
               /\ validationLevelOrDefault(validationLevel) # "moderate")
    THEN Validator(validatorDoc, FALSE, FALSE)
    ELSE Validator(validatorDoc, TRUE, TRUE)

\* A catalog step and the instance it is about; for the capped-delete
\* callback also the instance whose write made the record store call it.
CatOp(name, gen) == [name |-> name, gen |-> gen, trigger |-> NoGen]

NoCatOp == CatOp("none", NoGen)

\* CollectionImpl::init(opCtx): attaches the instance to the persisted
\* options.  An uassert leaves init by exception ("threw"); the fields
\* assigned before it keep their new values.
init(failPoint) ==
    /\ initialized = "no"
    /\ lastCat' = CatOp("init", collectionLatest)
    /\ UNCHANGED <<ns, clusterRole, collectionOptions, genVars>>
    /\ UNCHANGED <<fcv, isCapped, cappedMaxSize, cappedMaxDocs, needCappedLock,
                   isReplicated, selfManagedTruncation, needsSizeAdjustment,
                   hasIdIndex, notifierVars, instanceVars, execVars>>
    /\ IF checkValidatorCanBeUsedOnNs(collectionOptions.validator) # "OK"
       THEN /\ initialized' = "threw"
            /\ UNCHANGED <<validator, validationLevel, validationAction,
                           recordPreImages>>
       ELSE /\ validationAction' = collectionOptions.validationAction
            /\ validationLevel' = collectionOptions.validationLevel
            /\ IF /\ collectionOptions.recordPreImages
                  /\ validatePreImageRecording # "OK"
               THEN /\ initialized' = "threw"
                    /\ UNCHANGED <<validator, recordPreImages>>
               ELSE /\ recordPreImages' =
                          (recordPreImages \/ collectionOptions.recordPreImages)
                    /\ validator' = parseValidator(collectionOptions.validator,
                                                   TRUE, failPoint)'
                    /\ initialized' = "yes"

\* ------------------------------------------------- validator settings
\* ValidationLevelEnum / ValidationActionEnum; "unset" is boost::none.
ValidationLevels == {"off", "moderate", "strict"}
ValidationActions == {"error", "warn"}

\* What the setters of the validator leave alone.
ValidatorFrame ==
    UNCHANGED <<fcv, isCapped, cappedMaxSize, cappedMaxDocs, needCappedLock,
                isReplicated, selfManagedTruncation, needsSizeAdjustment,
                hasIdIndex, notifierVars, instanceVars, execVars, storeVars, indexVars, cappedVars,
                metaLock, pc, ctxVars, justInserted, commitHooks,
                rollbackHooks, uow, hist, ns, clusterRole, recordPreImages,
                initialized, genVars, lastCat, calls>>

\* DurableCatalog::updateValidator(opCtx, catalogId, validator, level,
\* action): the persisted options afterwards.
durableUpdateValidator(validatorDoc, level, action) ==
    [collectionOptions EXCEPT !.validator = validatorDoc,
                              !.validationLevel = level,
                              !.validationAction = action]

\* The arguments of a setter call: the fail point it ran under.
SetterArgs(failPoint) == [NoArgs EXCEPT !.fp = failPoint]

\* CollectionImpl::setValidator(opCtx, validator): v is a Validator the
\* caller has compiled.
setValidator(w, v) ==
    /\ initialized = "yes"
    /\ ValidatorFrame
    /\ collectionOptions' =
          durableUpdateValidator(v.validatorDoc,
                                 validationLevelOrDefault(validationLevel),
                                 validationActionOrDefault(validationAction))
    /\ validator' = v
    /\ UNCHANGED <<validationLevel, validationAction>>
    /\ lastOp' = [lastOp EXCEPT ![w] =
           Op("setValidator", "OK", <<"DurableCatalog::updateValidator">>)]
    /\ lastArgs' = SetterArgs(FALSE)

\* The end of setValidationLevel and setValidationAction, the member being
\* assigned: the validator is compiled again from its document; a
\* validator that is not OK is returned as the error, before the catalog
\* is written.
reparseAndPersist(w, name, allowEncryptKeywords, failPoint) ==
    /\ \E doc \in ValidatorSpecs :
          /\ doc = validator.validatorDoc
          /\ validator' = parseValidator(doc, allowEncryptKeywords, failPoint)'
    /\ IF ~validator'.ok
       THEN /\ UNCHANGED collectionOptions
            /\ lastOp' = [lastOp EXCEPT ![w] =
                   Op(name, "ValidatorError", <<"parseValidator">>)]
       ELSE /\ collectionOptions' =
                  durableUpdateValidator(
                      validator'.validatorDoc,
                      validationLevelOrDefault(validationLevel'),
                      validationActionOrDefault(validationAction'))
            /\ lastOp' = [lastOp EXCEPT ![w] =
                   Op(name, "OK", <<"parseValidator",
                                    "DurableCatalog::updateValidator">>)]
    /\ lastArgs' = SetterArgs(failPoint)

\* CollectionImpl::setValidationLevel(opCtx, newLevel).
setValidationLevel(w, newLevel, failPoint) ==
    /\ initialized = "yes"
    /\ ValidatorFrame
    /\ validationLevel' = newLevel
    /\ UNCHANGED validationAction
    /\ reparseAndPersist(w, "setValidationLevel",
                         validationLevelOrDefault(newLevel) # "moderate",
                         failPoint)

\* CollectionImpl::setValidationAction(opCtx, newAction).
setValidationAction(w, newAction, failPoint) ==
    /\ initialized = "yes"
    /\ ValidatorFrame
    /\ validationAction' = newAction
    /\ UNCHANGED validationLevel
    /\ reparseAndPersist(w, "setValidationAction",
                         validationActionOrDefault(newAction) # "warn",
                         failPoint)

\* CollectionImpl::updateValidator(opCtx, newValidator, newLevel,
\* newAction): the catalog is written first; the document is compiled
\* while the members still hold the old level and action.
updateValidator(w, newValidator, newLevel, newAction, failPoint) ==
    LET v == parseValidator(newValidator, TRUE, failPoint)
    IN  /\ initialized = "yes"
        /\ ValidatorFrame
        /\ collectionOptions' =
              durableUpdateValidator(newValidator, newLevel, newAction)
        /\ IF ~v.ok
           THEN /\ UNCHANGED <<validator, validationLevel, validationAction>>
                /\ lastOp' = [lastOp EXCEPT ![w] =
                       Op("updateValidator", "ValidatorError",
                          <<"DurableCatalog::updateValidator",
                            "parseValidator">>)]
           ELSE /\ validator' = v
                /\ validationLevel' = newLevel
                /\ validationAction' = newAction
                /\ lastOp' = [lastOp EXCEPT ![w] =
                       Op("updateValidator", "OK",
                          <<"DurableCatalog::updateValidator",
                            "parseValidator">>)]
        /\ lastArgs' = SetterArgs(failPoint)

\* ------------------------------------------ instances of one collection
\* Variant: the previous instance is left where it is.
instanceCreatedKeepsPrev(collection) ==
    /\ collectionPrev' = collectionPrev
    /\ collectionLatest' = collection

\* CollectionImpl::SharedState::instanceCreated(collection).
instanceCreated(collection) ==
    /\ collectionPrev' = collectionLatest
    /\ collectionLatest' = collection

\* Variant: the latest slot is left alone.
instanceDeletedNoPromote(collection) ==
    /\ collectionPrev' =
          (IF collection = collectionPrev THEN NoGen ELSE collectionPrev)
    /\ collectionLatest' = collectionLatest

\* Variant: the previous slot is left alone.
instanceDeletedKeepsPrev(collection) ==
    /\ collectionPrev' = collectionPrev
    /\ collectionLatest' =
          (IF collection = collectionLatest
           THEN collectionPrev ELSE collectionLatest)

\* CollectionImpl::SharedState::instanceDeleted(collection): the second
\* test reads _collectionPrev after the first one has assigned it.
instanceDeleted(collection) ==
    /\ collectionPrev' =
          (IF collection = collectionPrev THEN NoGen ELSE collectionPrev)
    /\ collectionLatest' =
          (IF collection = collectionLatest
           THEN collectionPrev' ELSE collectionLatest)

\* CollectionImpl::~CollectionImpl() of instance g.
destroy(g) ==
    /\ instanceDeleted(g)
    /\ alive' = alive \ {g}

\* Some reader other than r holds instance g.
HeldByReader(g, r) == \E o \in ReaderIds \ {r} : readers[o] = g

\* What clone() leaves alone.
CloneFrame ==
    UNCHANGED <<cfgVars, notifierVars, execVars, ns, clusterRole,
                collectionOptions, recordPreImages, initialized, committed>>

\* What the other catalog steps leave alone.
CatalogFrame ==
    UNCHANGED <<cfgVars, notifierVars, instanceVars, execVars, ns, clusterRole, collectionOptions, recordPreImages,
                initialized>>

\* The catalog registers the initialised instance.
registerCollection ==
    /\ initialized = "yes"
    /\ catalogGen = NoGen /\ nextGen = 2
    /\ lastCat.name = "init"
    /\ catalogGen' = collectionLatest
    /\ lastCat' = CatOp("register", collectionLatest)
    /\ UNCHANGED <<collectionLatest, collectionPrev, alive, pendingClone,
                   readers, nextGen>>
    /\ CatalogFrame

\* CollectionImpl::clone(), called by the catalog for a DDL operation that
\* holds the collection in MODE_X: one clone at a time.
clone ==
    /\ catalogGen # NoGen
    /\ pendingClone = NoGen
    /\ nextGen <= MaxGen
    /\ alive' = alive \cup {nextGen}
    /\ instanceCreated(nextGen)
    /\ cachedCommitted' = [cachedCommitted EXCEPT ![nextGen] = TRUE]
    /\ minVisibleSnapshot' =
           [minVisibleSnapshot EXCEPT ![nextGen] = minVisibleSnapshot[catalogGen]]
    /\ snapshotsPassed' =
           [snapshotsPassed EXCEPT ![nextGen] = snapshotsPassed[catalogGen]]
    /\ pendingClone' = nextGen
    /\ nextGen' = nextGen + 1
    /\ lastCat' = CatOp("clone", nextGen)
    /\ UNCHANGED <<catalogGen, readers>>
    /\ CloneFrame

\* The DDL operation commits: the catalog holds the clone; the instance it
\* held is destroyed unless a reader keeps it alive.
commitClone ==
    /\ pendingClone # NoGen
    /\ catalogGen' = pendingClone
    /\ pendingClone' = NoGen
    /\ IF HeldByReader(catalogGen, "none")
       THEN UNCHANGED <<collectionLatest, collectionPrev, alive>>
       ELSE destroy(catalogGen)
    /\ lastCat' = CatOp("commit", pendingClone)
    /\ UNCHANGED <<readers, nextGen>>
    /\ CatalogFrame

\* The DDL operation rolls back: the clone is destroyed.
rollbackClone ==
    /\ pendingClone # NoGen
    /\ pendingClone' = NoGen
    /\ destroy(pendingClone)
    /\ lastCat' = CatOp("rollback", pendingClone)
    /\ UNCHANGED <<catalogGen, readers, nextGen>>
    /\ CatalogFrame

\* A read operation looks the collection up and keeps the instance.
readerAcquire(r) ==
    /\ catalogGen # NoGen
    /\ readers[r] = NoGen
    /\ readers' = [readers EXCEPT ![r] = catalogGen]
    /\ lastCat' = CatOp("acquire", catalogGen)
    /\ UNCHANGED <<collectionLatest, collectionPrev, alive, catalogGen,
                   pendingClone, nextGen>>
    /\ CatalogFrame

\* A read operation ends: its instance is destroyed when nothing else holds
\* it.
readerRelease(r) ==
    /\ readers[r] # NoGen
    /\ readers' = [readers EXCEPT ![r] = NoGen]
    /\ IF readers[r] = catalogGen \/ HeldByReader(readers[r], r)
       THEN UNCHANGED <<collectionLatest, collectionPrev, alive>>
       ELSE destroy(readers[r])
    /\ lastCat' = CatOp("release", readers[r])
    /\ UNCHANGED <<catalogGen, pendingClone, nextGen>>
    /\ CatalogFrame

\* The collection is dropped: the catalog lets go of its instance.
dropCollection ==
    /\ catalogGen # NoGen
    /\ pendingClone = NoGen
    /\ catalogGen' = NoGen
    /\ IF HeldByReader(catalogGen, "none")
       THEN UNCHANGED <<collectionLatest, collectionPrev, alive>>
       ELSE destroy(catalogGen)
    /\ lastCat' = CatOp("drop", catalogGen)
    /\ UNCHANGED <<pendingClone, readers, nextGen>>
    /\ CatalogFrame

\* What _collectionLatest->getIndexCatalog() yields: the latest instance, or,
\* when the pointer is null or dangling, anything.
latestIndexCatalog ==
    IF collectionLatest \in alive THEN {collectionLatest}
    ELSE Generations \cup {NoGen}

\* Variant: the instance that made the write serves the callback.
aboutToDeleteCappedByTrigger(w, trigger, loc) ==
    /\ catalogGen # NoGen
    /\ trigger \in {catalogGen, pendingClone} \ {NoGen}
    /\ lastCat' = [CatOp("aboutToDeleteCapped", trigger)
                      EXCEPT !.trigger = trigger]
    /\ indexKeys' = indexKeys \ {loc}
    /\ ixRemoved' = [ixRemoved EXCEPT ![w] =
                        @ \cup (({loc} \cap indexKeys) \ ixAdded[w])]
    /\ ixAdded' = [ixAdded EXCEPT ![w] = @ \ {loc}]
    /\ UNCHANGED genVars
    /\ CatalogFrame

\* CollectionImpl::SharedState::aboutToDeleteCapped(opCtx, loc, data): the
\* record store, deleting record loc of a capped collection during a write
\* made through instance trigger (the catalog's, or the clone of the DDL
\* operation in progress), has the index entries of loc removed by the
\* index catalog of the latest instance.
aboutToDeleteCapped(w, trigger, loc) ==
    /\ catalogGen # NoGen
    /\ trigger \in {catalogGen, pendingClone} \ {NoGen}
    /\ \E target \in latestIndexCatalog :
          lastCat' = [CatOp("aboutToDeleteCapped", target)
                         EXCEPT !.trigger = trigger]
    /\ indexKeys' = indexKeys \ {loc}
    /\ ixRemoved' = [ixRemoved EXCEPT ![w] =
                        @ \cup (({loc} \cap indexKeys) \ ixAdded[w])]
    /\ ixAdded' = [ixAdded EXCEPT ![w] = @ \ {loc}]
    /\ UNCHANGED genVars
    /\ CatalogFrame

\* ------------------------------------- committed flag, visible snapshot
\* CollectionImpl::isCommitted() of instance g.
isCommitted(g) == cachedCommitted[g] \/ committed

\* What the steps on one instance leave alone.
InstanceFrame ==
    UNCHANGED <<cfgVars, notifierVars, execVars, ns, clusterRole,
                collectionOptions, recordPreImages, initialized, genVars>>

\* Variant: the flag of the shared state alone is written.
setCommittedSharedOnly(g, val) ==
    /\ g \in alive
    /\ (~isCommitted(g) /\ val) \/ (isCommitted(g) /\ ~val)
    /\ committed' = val
    /\ UNCHANGED cachedCommitted
    /\ lastCat' = CatOp("setCommitted", g)
    /\ UNCHANGED <<minVisibleSnapshot, snapshotsPassed>>
    /\ InstanceFrame

\* CollectionImpl::setCommitted(val) on instance g.  The invariant lets
\* only a call that changes isCommitted() go on.
setCommitted(g, val) ==
    /\ g \in alive
    /\ (~isCommitted(g) /\ val) \/ (isCommitted(g) /\ ~val)
    /\ committed' = val
    /\ cachedCommitted' = (IF ~val THEN [cachedCommitted EXCEPT ![g] = val]
                           ELSE cachedCommitted)
    /\ lastCat' = CatOp("setCommitted", g)
    /\ UNCHANGED <<minVisibleSnapshot, snapshotsPassed>>
    /\ InstanceFrame

\* Variant: the timestamp passed is stored whatever the stored one is.
setMinimumVisibleSnapshotAlways(g, newMinimumVisibleSnapshot) ==
    /\ g \in alive
    /\ minVisibleSnapshot' =
           [minVisibleSnapshot EXCEPT ![g] = newMinimumVisibleSnapshot]
    /\ snapshotsPassed' =
           [snapshotsPassed EXCEPT ![g] = @ \cup {newMinimumVisibleSnapshot}]
    /\ lastCat' = CatOp("setMinimumVisibleSnapshot", g)
    /\ UNCHANGED <<cachedCommitted, committed>>
    /\ InstanceFrame

\* CollectionImpl::setMinimumVisibleSnapshot(newMinimumVisibleSnapshot) on
\* instance g; snapshotsPassed remembers the timestamps passed.
setMinimumVisibleSnapshot(g, newMinimumVisibleSnapshot) ==
    /\ g \in alive
    /\ minVisibleSnapshot' =
           (IF \/ minVisibleSnapshot[g] = NoTimestamp
               \/ newMinimumVisibleSnapshot > minVisibleSnapshot[g]
            THEN [minVisibleSnapshot EXCEPT ![g] = newMinimumVisibleSnapshot]
            ELSE minVisibleSnapshot)
    /\ snapshotsPassed' =
           [snapshotsPassed EXCEPT ![g] = @ \cup {newMinimumVisibleSnapshot}]
    /\ lastCat' = CatOp("setMinimumVisibleSnapshot", g)
    /\ UNCHANGED <<cachedCommitted, committed>>
    /\ InstanceFrame

\* ------------------------------- WindowFunctionExecRemovableDocument
\* Value::getApproximateSize().
getApproximateSize(v) == v

RECURSIVE SumApproximateSizes(_)
\* The approximate sizes of the values of a sequence, added up.
SumApproximateSizes(q) ==
    IF q = <<>> THEN 0
    ELSE getApproximateSize(Head(q)) + SumApproximateSizes(Tail(q))

RECURSIVE RemoveOne(_, _)
\* WindowFunctionState::remove(v): the function no longer holds one v.
RemoveOne(q, v) ==
    IF q = <<>> THEN <<>>
    ELSE IF Head(q) = v THEN Tail(q)
    ELSE <<Head(q)>> \o RemoveOne(Tail(q), v)

\* What the steps of the executor leave alone.
ExecFrame ==
    UNCHANGED <<cfgVars, storeVars, indexVars, cappedVars, metaLock, opVars,
                catVars, notifierVars, instanceVars, lastArgs, calls, hist>>

\* WindowFunctionExecRemovable::addValue(v): the value goes to the window
\* function and to the queue, and its size is added to the memory tracked.
addValue(v) ==
    /\ addCalls < MaxAdds
    /\ addCalls' = addCalls + 1
    /\ functionValues' = Append(functionValues, v)
    /\ values' = Append(values, v)
    /\ memUsageBytes' = memUsageBytes + getApproximateSize(v)
    /\ UNCHANGED execInitialized
    /\ ExecFrame

\* initialize(): the initial window has been populated.
initialize ==
    /\ ~execInitialized
    /\ execInitialized' = TRUE
    /\ UNCHANGED <<values, functionValues, memUsageBytes, addCalls>>
    /\ ExecFrame

\* removeFirstValueIfExists().
removeFirstValueIfExists ==
    /\ IF Len(values) = 0
       THEN UNCHANGED <<values, functionValues, memUsageBytes>>
       ELSE /\ memUsageBytes' = memUsageBytes - getApproximateSize(Head(values))
            /\ functionValues' = RemoveOne(functionValues, Head(values))
            /\ values' = Tail(values)
    /\ UNCHANGED <<execInitialized, addCalls>>
    /\ ExecFrame

\* reset(): the window function is reset, the queue replaced by an empty
\* one, the executor uninitialized; _memUsageBytes is not assigned.
reset ==
    /\ functionValues' = <<>>
    /\ values' = <<>>
    /\ execInitialized' = FALSE
    /\ UNCHANGED <<memUsageBytes, addCalls>>
    /\ ExecFrame

\* ------------------------------------------------------- specifications
\* An empty record store.
EmptyStore ==
    /\ nextId = 1
    /\ docs = [r \in RecordIds |-> NoDoc]
    /\ live = {}
    /\ indexKeys = {}

\* The state after construction apart from the records of the store: no
\* unit of work open, the resume pointer null.
InitOps ==
    /\ ins = [w \in Writers |-> {}]
    /\ del = [w \in Writers |-> {}]
    /\ snap = [w \in Writers |-> {}]
    /\ undo = [w \in Writers |-> [r \in RecordIds |-> NoDoc]]
    /\ ixAdded = [w \in Writers |-> {}]
    /\ ixRemoved = [w \in Writers |-> {}]
    /\ cappedFirstRecord = NullId
    /\ cappedDeleterMutex = NoWriter
    /\ metaLock = NoWriter
    /\ pc = [w \in Writers |-> "idle"]
    /\ enforcing = [w \in Writers |-> TRUE]
    /\ validationDisabled = [w \in Writers |-> FALSE]
    /\ apiStrictError = [w \in Writers |-> FALSE]
    /\ justInserted = [w \in Writers |-> NullId]
    /\ commitHooks = [w \in Writers |-> 0]
    /\ rollbackHooks = [w \in Writers |-> 0]
    /\ lastOp = [w \in Writers |-> NoOp]
    /\ uow = [w \in Writers |-> Uow0]
    /\ cappedWaiters = {}
    /\ notified = {}
    /\ cachedCommitted = [g \in Generations |-> TRUE]
    /\ committed = TRUE
    /\ minVisibleSnapshot = [g \in Generations |-> NoTimestamp]
    /\ snapshotsPassed = [g \in Generations |-> {}]
    /\ values = <<>>
    /\ functionValues = <<>>
    /\ memUsageBytes = ExecSize
    /\ execInitialized = FALSE
    /\ addCalls = 0
    /\ lastArgs = NoArgs
    /\ calls = 0
    /\ hist = Hist0

\* The state after construction: an empty record store, no unit of work
\* open, the resume pointer null.
InitState == EmptyStore /\ InitOps

\* The options of a collection without validator.
DefaultOptions ==
    [validator |-> "empty", validationLevel |-> "unset",
     validationAction |-> "unset", recordPreImages |-> FALSE]

\* SharedState's constructor: _needCappedLock is set for a capped collection
\* outside the "local" database.
needCappedLockOf(capped, nsKind) == capped /\ nsKind # "local"

\* The catalog of the write specifications: the collection is attached, the
\* catalog holds its only instance, no DDL operation runs.  A capped
\* collection that takes no metadata lock is one of "local".
CatalogAttached ==
    /\ ns = (IF isCapped /\ ~needCappedLock THEN "local" ELSE "user")
    /\ clusterRole = "None"
    /\ collectionOptions = DefaultOptions
    /\ initialized = "yes"
    /\ collectionLatest = 1
    /\ collectionPrev = NoGen
    /\ alive = {1}
    /\ catalogGen = 1
    /\ pendingClone = NoGen
    /\ readers = [r \in ReaderIds |-> NoGen]
    /\ nextGen = 2
    /\ lastCat = NoCatOp

\* Size cap of the capped collections of the eviction specification.
CappedSize == 3
\* Document cap of those of them that have one.
CappedDocsCap == 2

\* A capped collection without validator, written by concurrent writers.
InitCapped ==
    /\ fcv \in {47, 50}
    /\ isCapped = TRUE
    /\ cappedMaxSize = CappedSize
    /\ cappedMaxDocs \in {0, CappedDocsCap}
    /\ needCappedLock \in BOOLEAN
    /\ isReplicated = needCappedLock
    /\ recordPreImages = FALSE
    /\ CatalogAttached
    /\ selfManagedTruncation = FALSE
    /\ needsSizeAdjustment \in (IF fcv < 50 THEN BOOLEAN ELSE {TRUE})
    /\ hasIdIndex \in BOOLEAN
    /\ validator = [ok |-> TRUE, filter |-> FALSE]
    /\ validationLevel = "unset"
    /\ validationAction = "unset"
    /\ InitState

NextCapped ==
    /\ UNCHANGED <<lastArgs, calls, catVars>>
    /\ \E w \in Writers :
        \/ \E enf \in (IF useOldCappedDeleteBehaviour THEN {TRUE} ELSE BOOLEAN) :
              BeginUnitOfWork(w, enf, FALSE, FALSE)
        \/ \E batch \in Batches(CappedDocs, MaxBatch) :
              /\ nextId + Len(batch) - 1 <= MaxCappedId
              /\ insertDocuments(w, batch, FALSE, "ok")
        \/ \E batch \in Batches(CappedDocs, MaxBatch) :
              /\ nextId + Len(batch) - 1 <= MaxCappedId
              /\ insertDocumentsForOplog(w, batch, "ok")
        \/ \E doc \in CappedDocs :
              /\ nextId <= MaxCappedId
              /\ insertDocumentForBulkLoader(w, doc, FALSE, "ok", "OK")
        \/ cappedDeleteLock(w)
        \/ cappedDeleteRun(w)
        \/ Commit(w)
        \/ Rollback(w)

SpecCapped == InitCapped /\ [][NextCapped]_vars

\* The same collection written by one unit of work at a time.
NextSeq ==
    /\ UNCHANGED <<lastArgs, calls, catVars>>
    /\ \E w \in Writers :
        \/ \E enf \in BOOLEAN :
              /\ \A o \in Writers : pc[o] = "idle"
              /\ BeginUnitOfWork(w, enf, FALSE, FALSE)
        \/ \E batch \in Batches(CappedDocs, MaxBatch) :
              /\ nextId + Len(batch) - 1 <= MaxSeqId
              /\ insertDocuments(w, batch, FALSE, "ok")
        \/ cappedDeleteLock(w)
        \/ cappedDeleteRun(w)
        \/ Commit(w)
        \/ Rollback(w)

SpecSeq == InitCapped /\ [][NextSeq]_vars

\* Size cap the inserts of the document-cap specification never reach.
RoomySize == 8

\* A capped collection limited by its document cap, written by committed
\* units of work of one insert each, by writers that enforce constraints.
InitDocs ==
    /\ fcv \in {47, 50}
    /\ isCapped = TRUE
    /\ cappedMaxSize = RoomySize
    /\ cappedMaxDocs = CappedDocsCap
    /\ needCappedLock \in BOOLEAN
    /\ isReplicated = needCappedLock
    /\ recordPreImages = FALSE
    /\ CatalogAttached
    /\ selfManagedTruncation = FALSE
    /\ needsSizeAdjustment \in (IF fcv < 50 THEN BOOLEAN ELSE {TRUE})
    /\ hasIdIndex \in BOOLEAN
    /\ validator = [ok |-> TRUE, filter |-> FALSE]
    /\ validationLevel = "unset"
    /\ validationAction = "unset"
    /\ InitState

NextDocs ==
    /\ UNCHANGED <<lastArgs, calls, catVars>>
    /\ \E w \in Writers :
        \/ /\ \A o \in Writers : pc[o] = "idle"
           /\ BeginUnitOfWork(w, TRUE, FALSE, FALSE)
        \/ \E doc \in CappedDocs :
              /\ nextId <= MaxSeqId
              /\ uow[w].inserts = 0
              /\ insertDocuments(w, <<doc>>, FALSE, "ok")
        \/ cappedDeleteLock(w)
        \/ cappedDeleteRun(w)
        \/ uow[w].inserts = 1 /\ Commit(w)

SpecDocs == InitDocs /\ [][NextDocs]_vars

\* The writer of the single-writer specification.
TheWriter == "w1"

\* Validation settings of the single-writer specification.
ValidationSettings ==
    {<<"unset", "unset">>}
    \cup ({"off", "moderate", "strict"} \X {"error", "warn"})

\* Documents of its one-document batches: the update may set any _id.
SingleDocs == {d \in Docs : d.idField \in {0, 1}}

\* Documents of its two-document batches.
PairDocs == {d \in Docs : d.idField \in {0, 1} /\ d.size = 1
                           /\ d.matches \in {"match", "nomatch"}}

\* A collection, capped or not, with or without validator, written by one
\* writer; a capped one is far from its caps.
Init ==
    /\ validator \in {[ok |-> TRUE, filter |-> FALSE],
                      [ok |-> TRUE, filter |-> TRUE],
                      [ok |-> FALSE, filter |-> FALSE]}
    /\ fcv \in (IF validator.filter THEN {44, 50} ELSE {50})
    /\ isCapped \in BOOLEAN
    /\ cappedMaxSize = (IF isCapped THEN RoomySize ELSE 0)
    /\ cappedMaxDocs = 0
    /\ needCappedLock = isCapped
    /\ isReplicated = TRUE
    /\ recordPreImages \in (IF validator.ok /\ ~validator.filter
                            THEN BOOLEAN ELSE {FALSE})
    /\ CatalogAttached
    /\ selfManagedTruncation = FALSE
    /\ needsSizeAdjustment = TRUE
    /\ hasIdIndex \in (IF validator.ok /\ ~validator.filter
                       THEN BOOLEAN ELSE {TRUE})
    /\ \E setting \in (IF validator.ok /\ ~validator.filter
                       THEN {<<"unset", "unset">>} ELSE ValidationSettings) :
           /\ validationLevel = setting[1]
           /\ validationAction = setting[2]
           /\ validator.ok \/ setting[2] # "warn"
    /\ InitState

\* Insert, update and delete calls of a run of the single-writer
\* specification.
MaxCalls == 2

\* Another call is made only while fewer than MaxCalls were; it counts.
MayCall == calls < MaxCalls

Called(args) == calls' = calls + 1 /\ lastArgs' = args /\ UNCHANGED catVars

NotCalled == lastArgs' = NoArgs /\ UNCHANGED <<calls, catVars>>

Next ==
    LET w == TheWriter
    IN  \/ \E enf \in (IF isCapped THEN BOOLEAN ELSE {TRUE}),
              bypass \in (IF validator.ok /\ ~validator.filter
                          THEN {FALSE} ELSE BOOLEAN),
              apiErr \in (IF validator.filter THEN BOOLEAN ELSE {FALSE}) :
              BeginUnitOfWork(w, enf, bypass, apiErr) /\ NotCalled
        \/ \E batch \in Batches(SingleDocs, 1) \cup [1..MaxBatch -> PairDocs],
              fp \in BOOLEAN, storage \in {"ok", "insertFails", "indexFails"} :
              /\ MayCall
              /\ nextId + Len(batch) - 1 <= MaxGeneralId
              /\ insertDocuments(w, batch, fp, storage)
              /\ Called(InsertArgs(batch, fp))
        \/ \E doc \in PairDocs, fp \in BOOLEAN,
              storage \in {"ok", "insertFails"}, cb \in {"OK", "Error"} :
              /\ MayCall
              /\ nextId <= MaxGeneralId
              /\ insertDocumentForBulkLoader(w, doc, fp, storage, cb)
              /\ Called(InsertArgs(<<doc>>, fp))
        \/ \E loc \in RecordIds, newDoc \in Docs, indexesAffected \in BOOLEAN,
              storage \in {"ok", "updateFails", "indexFails"} :
              /\ MayCall
              /\ updateDocument(w, loc, newDoc, indexesAffected, storage)
              /\ Called(UpdateArgs(loc, docs[loc], newDoc))
        \/ \E loc \in RecordIds, storeDeletedDoc \in BOOLEAN,
              txnNumber \in BOOLEAN :
              /\ MayCall
              /\ deleteDocument(w, loc, storeDeletedDoc, txnNumber)
              /\ Called([NoArgs EXCEPT !.loc = loc])
        \/ Commit(w) /\ NotCalled
        \/ Rollback(w) /\ NotCalled

Spec == Init /\ [][Next]_vars

\* Size cap of the capped collection of the insert specification: every
\* second insert is over it.
TightSize == 1
\* Records and insert calls of a run of the insert specification.
MaxInsertId == 3
MaxInsertCalls == 3

\* What the record store and the index catalog do, or the call that fails.
StorageOutcomes == {"ok", "insertFails", "indexFails"}

\* A collection, capped (with a tight size cap) or not, with or without
\* indexes and validator, written by one writer.
InitInsert ==
    /\ fcv \in {47, 50}
    /\ isCapped \in BOOLEAN
    /\ cappedMaxSize = (IF isCapped THEN TightSize ELSE 0)
    /\ cappedMaxDocs = 0
    /\ needCappedLock = isCapped
    /\ isReplicated = TRUE
    /\ recordPreImages = FALSE
    /\ CatalogAttached
    /\ selfManagedTruncation = FALSE
    /\ needsSizeAdjustment = TRUE
    /\ hasIdIndex \in BOOLEAN
    /\ validator \in {[ok |-> TRUE, filter |-> FALSE],
                      [ok |-> TRUE, filter |-> TRUE]}
    /\ validationLevel = "unset"
    /\ validationAction = "unset"
    /\ InitState

NextInsert ==
    LET w == TheWriter
    IN  \/ BeginUnitOfWork(w, TRUE, FALSE, FALSE) /\ NotCalled
        \/ \E batch \in Batches(PairDocs, MaxBatch), fp \in BOOLEAN,
              storage \in StorageOutcomes :
              /\ calls < MaxInsertCalls
              /\ nextId + Len(batch) - 1 <= MaxInsertId
              /\ insertDocuments(w, batch, fp, storage)
              /\ Called(InsertArgs(batch, fp))
        \/ cappedDeleteLock(w) /\ UNCHANGED <<lastArgs, calls, catVars>>
        \/ cappedDeleteRun(w) /\ UNCHANGED <<lastArgs, calls, catVars>>
        \/ Commit(w) /\ UNCHANGED <<lastArgs, calls, catVars>>
        \/ Rollback(w) /\ UNCHANGED <<lastArgs, calls, catVars>>

SpecInsert == InitInsert /\ [][NextInsert]_vars

\* Size cap of the capped collection of the exclusion specification, and
\* the records its writers insert.
EvictSize == 1
MaxEvictId == 3

\* Its documents: one _id, one size.
EvictDocs == {d \in CappedDocs : d.size = 1}

\* The operations of the first writer enforce constraints (user writes),
\* those of the second do not (system writes, which may delete).
EnforcesConstraints(w) == w = "w1"

\* A capped collection written concurrently by a user operation and a
\* system operation: one outside "local" (replicated, metadata lock), or
\* one inside "local" (neither), whose record store may truncate by itself
\* (the oplog); it has a tight size cap, or a document cap only.
InitEvict ==
    /\ fcv \in {47, 50}
    /\ isCapped = TRUE
    /\ \E caps \in {<<EvictSize, 0>>, <<RoomySize, CappedDocsCap>>} :
          cappedMaxSize = caps[1] /\ cappedMaxDocs = caps[2]
    /\ needCappedLock \in BOOLEAN
    /\ isReplicated = needCappedLock
    /\ recordPreImages = FALSE
    /\ CatalogAttached
    /\ selfManagedTruncation \in (IF needCappedLock THEN {FALSE} ELSE BOOLEAN)
    /\ needsSizeAdjustment \in (IF fcv < 50 THEN BOOLEAN ELSE {TRUE})
    /\ hasIdIndex = FALSE
    /\ validator = [ok |-> TRUE, filter |-> FALSE]
    /\ validationLevel = "unset"
    /\ validationAction = "unset"
    /\ InitState

NextEvict ==
    /\ UNCHANGED <<lastArgs, calls, catVars>>
    /\ \E w \in Writers :
        \/ BeginUnitOfWork(w, EnforcesConstraints(w), FALSE, FALSE)
        \/ \E doc \in EvictDocs :
              /\ nextId <= MaxEvictId
              /\ insertDocuments(w, <<doc>>, FALSE, "ok")
        \/ \E loc \in RecordIds : deleteDocument(w, loc, FALSE, FALSE)
        \/ cappedDeleteLock(w)
        \/ cappedDeleteRun(w)
        \/ Commit(w)
        \/ Rollback(w)

SpecEvict == InitEvict /\ [][NextEvict]_vars

\* Records inserted in a run of the notifier specification.
MaxNotifyId == 3

\* A collection, capped (with a tight size cap) or not, with or without
\* indexes, written by one writer while read operations wait on the capped
\* insert notifier.
InitNotify ==
    /\ fcv \in {47, 50}
    /\ isCapped \in BOOLEAN
    /\ cappedMaxSize = (IF isCapped THEN TightSize ELSE 0)
    /\ cappedMaxDocs = 0
    /\ needCappedLock = isCapped
    /\ isReplicated = TRUE
    /\ recordPreImages = FALSE
    /\ CatalogAttached
    /\ selfManagedTruncation = FALSE
    /\ needsSizeAdjustment = TRUE
    /\ hasIdIndex \in BOOLEAN
    /\ validator = [ok |-> TRUE, filter |-> FALSE]
    /\ validationLevel = "unset"
    /\ validationAction = "unset"
    /\ InitState

NextNotify ==
    LET w == TheWriter
    IN  /\ UNCHANGED <<lastArgs, calls, catVars>>
        /\ \/ BeginUnitOfWork(w, TRUE, FALSE, FALSE)
           \/ \E batch \in Batches(EvictDocs, MaxBatch), fp \in BOOLEAN,
                 storage \in StorageOutcomes :
                 /\ nextId + Len(batch) - 1 <= MaxNotifyId
                 /\ insertDocuments(w, batch, fp, storage)
           \/ \E batch \in Batches(EvictDocs, MaxBatch),
                 storage \in {"ok", "insertFails"} :
                 /\ nextId + Len(batch) - 1 <= MaxNotifyId
                 /\ insertDocumentsForOplog(w, batch, storage)
           \/ \E doc \in EvictDocs, fp \in BOOLEAN,
                 storage \in {"ok", "insertFails"}, cb \in {"OK", "Error"} :
                 /\ nextId <= MaxNotifyId
                 /\ insertDocumentForBulkLoader(w, doc, fp, storage, cb)
           \/ cappedDeleteLock(w)
           \/ cappedDeleteRun(w)
           \/ Commit(w)
           \/ Rollback(w)
           \/ \E r \in ReaderIds : getCappedInsertNotifier(r)
           \/ \E r \in ReaderIds : releaseCappedInsertNotifier(r)

SpecNotify == InitNotify /\ [][NextNotify]_vars

\* Records inserted in a run of the metadata-lock specification.
MaxLockId == 2

\* A collection, capped (far from its cap) or not, inside or outside
\* "local", written concurrently by a user operation and a system
\* operation.
InitLock ==
    /\ fcv = 50
    /\ isCapped \in BOOLEAN
    /\ cappedMaxSize = (IF isCapped THEN RoomySize ELSE 0)
    /\ cappedMaxDocs = 0
    /\ ns \in {"user", "local"}
    /\ needCappedLock = needCappedLockOf(isCapped, ns)
    /\ isReplicated = (ns # "local")
    /\ recordPreImages = FALSE
    /\ clusterRole = "None"
    /\ collectionOptions = DefaultOptions
    /\ initialized = "yes"
    /\ collectionLatest = 1
    /\ collectionPrev = NoGen
    /\ alive = {1}
    /\ catalogGen = 1
    /\ pendingClone = NoGen
    /\ readers = [r \in ReaderIds |-> NoGen]
    /\ nextGen = 2
    /\ lastCat = NoCatOp
    /\ selfManagedTruncation = FALSE
    /\ needsSizeAdjustment = TRUE
    /\ hasIdIndex = TRUE
    /\ validator = [ok |-> TRUE, filter |-> FALSE]
    /\ validationLevel = "unset"
    /\ validationAction = "unset"
    /\ InitState

NextLock ==
    /\ UNCHANGED <<lastArgs, calls, catVars>>
    /\ \E w \in Writers :
        \/ BeginUnitOfWork(w, EnforcesConstraints(w), FALSE, FALSE)
        \/ \E doc \in EvictDocs, fp \in BOOLEAN, storage \in StorageOutcomes :
              /\ nextId <= MaxLockId
              /\ insertDocuments(w, <<doc>>, fp, storage)
        \/ \E doc \in EvictDocs :
              /\ nextId <= MaxLockId
              /\ insertDocumentForBulkLoader(w, doc, FALSE, "ok", "OK")
        \/ \E loc \in RecordIds, doc \in {d \in CappedDocs : d.size = 1},
              indexesAffected \in BOOLEAN, storage \in {"ok", "updateFails"} :
              updateDocument(w, loc, doc, indexesAffected, storage)
        \/ \E loc \in RecordIds : deleteDocument(w, loc, FALSE, FALSE)
        \/ Commit(w)
        \/ Rollback(w)

SpecLock == InitLock /\ [][NextLock]_vars

\* Documents of the in-place update specification: the _id is fixed.
DamageDocs == {d \in Docs : d.idField = 1 /\ d.matches \in {"match", "nomatch"}}

\* What the damages make of a record: a document of the same size.
Damaged(doc) == {d \in DamageDocs : d.size = doc.size}

\* Records of a run of the in-place update specification.
MaxDamageId == 2

\* A collection that holds one record, its validator in any state, with or
\* without pre-image recording.
InitDamages ==
    /\ fcv = 50
    /\ isCapped = FALSE
    /\ cappedMaxSize = 0
    /\ cappedMaxDocs = 0
    /\ needCappedLock = FALSE
    /\ isReplicated = TRUE
    /\ recordPreImages \in BOOLEAN
    /\ CatalogAttached
    /\ selfManagedTruncation = FALSE
    /\ needsSizeAdjustment = TRUE
    /\ hasIdIndex = TRUE
    /\ validator \in {[ok |-> TRUE, filter |-> FALSE],
                      [ok |-> TRUE, filter |-> TRUE],
                      [ok |-> FALSE, filter |-> FALSE]}
    /\ validationLevel = "unset"
    /\ validationAction = "unset"
    /\ nextId = 2
    /\ \E doc \in DamageDocs :
          docs = [r \in RecordIds |-> IF r = 1 THEN doc ELSE NoDoc]
    /\ live = {1}
    /\ indexKeys = {1}
    /\ InitOps

NextDamages ==
    LET w == TheWriter
    IN  /\ UNCHANGED <<calls, catVars>>
        /\ \/ BeginUnitOfWork(w, TRUE, FALSE, FALSE) /\ lastArgs' = NoArgs
           \/ \E doc \in DamageDocs :
                 /\ nextId <= MaxDamageId
                 /\ insertDocuments(w, <<doc>>, FALSE, "ok")
                 /\ lastArgs' = NoArgs
           \/ \E loc \in RecordIds, rsSupported \in BOOLEAN,
                 storage \in {"ok", "updateFails"} :
                 \E newDoc \in Damaged(docs[loc]),
                    argsPreImage \in {NoDoc, docs[loc]} :
                    updateDocumentWithDamages(w, loc, newDoc, argsPreImage,
                                              rsSupported, storage)
           \/ Commit(w) /\ lastArgs' = NoArgs
           \/ Rollback(w) /\ lastArgs' = NoArgs

SpecDamages == InitDamages /\ [][NextDamages]_vars

\* Persisted validation settings of the catalog specification.
PersistedSettings ==
    {<<"unset", "unset">>, <<"off", "error">>, <<"moderate", "error">>,
     <<"strict", "warn">>}

\* A collection being attached: its first instance is constructed (it is
\* the latest one, SharedState's constructor) and not yet initialised; the
\* record store is empty and no writer is active.
InitCatalog ==
    /\ ns \in {"user", "system", "local"}
    /\ clusterRole \in (IF ns = "user" THEN {"None", "ShardServer"}
                        ELSE {"None"})
    /\ \E doc \in ValidatorSpecs, setting \in PersistedSettings,
          preImages \in BOOLEAN :
           collectionOptions =
               [validator |-> doc, validationLevel |-> setting[1],
                validationAction |-> setting[2], recordPreImages |-> preImages]
    /\ recordPreImages = FALSE
    /\ initialized = "no"
    /\ collectionLatest = 1
    /\ collectionPrev = NoGen
    /\ alive = {1}
    /\ catalogGen = NoGen
    /\ pendingClone = NoGen
    /\ readers = [r \in ReaderIds |-> NoGen]
    /\ nextGen = 2
    /\ lastCat = NoCatOp
    /\ fcv = 50
    /\ isCapped = FALSE
    /\ cappedMaxSize = 0
    /\ cappedMaxDocs = 0
    /\ needCappedLock = FALSE
    /\ isReplicated = TRUE
    /\ selfManagedTruncation = FALSE
    /\ needsSizeAdjustment = TRUE
    /\ hasIdIndex = TRUE
    /\ validator = NoValidator
    /\ validationLevel = "unset"
    /\ validationAction = "unset"
    /\ InitState

NextCatalog ==
    /\ UNCHANGED <<storeVars, cappedVars, metaLock, opVars, lastArgs, calls,
                   hist>>
    /\ \/ UNCHANGED indexVars /\ \E failPoint \in BOOLEAN : init(failPoint)
       \/ UNCHANGED indexVars /\ registerCollection
       \/ UNCHANGED indexVars /\ clone
       \/ UNCHANGED indexVars /\ commitClone
       \/ UNCHANGED indexVars /\ rollbackClone
       \/ UNCHANGED indexVars /\ \E r \in ReaderIds : readerAcquire(r)
       \/ UNCHANGED indexVars /\ \E r \in ReaderIds : readerRelease(r)
       \/ UNCHANGED indexVars /\ dropCollection
       \/ \E trigger \in Generations, loc \in RecordIds :
              aboutToDeleteCapped(TheWriter, trigger, loc)

SpecCatalog == InitCatalog /\ [][NextCatalog]_vars

\* The eviction specification under fair scheduling: a thread that holds
\* the capped-deleter mutex goes on, and a thread that waits for the mutex
\* gets it if it is free again and again.
EvictFairness ==
    \A w \in Writers :
        /\ WF_vars(cappedDeleteRun(w) /\ UNCHANGED <<lastArgs, calls, catVars>>)
        /\ SF_vars(cappedDeleteLock(w) /\ UNCHANGED <<lastArgs, calls, catVars>>)

SpecEvictFair == SpecEvict /\ EvictFairness

\* A collection whose first instance the catalog has registered; clones
\* are made, committed and rolled back, readers keep instances, and the
\* committed flag and the minimum visible snapshot of the instances are set.
InitInstances ==
    /\ ns = "user"
    /\ clusterRole = "None"
    /\ collectionOptions =
           [validator |-> "empty", validationLevel |-> "unset",
            validationAction |-> "unset", recordPreImages |-> FALSE]
    /\ recordPreImages = FALSE
    /\ initialized = "yes"
    /\ collectionLatest = 1
    /\ collectionPrev = NoGen
    /\ alive = {1}
    /\ catalogGen = 1
    /\ pendingClone = NoGen
    /\ readers = [r \in ReaderIds |-> NoGen]
    /\ nextGen = 2
    /\ lastCat = CatOp("register", 1)
    /\ fcv = 50
    /\ isCapped = FALSE
    /\ cappedMaxSize = 0
    /\ cappedMaxDocs = 0
    /\ needCappedLock = FALSE
    /\ isReplicated = TRUE
    /\ selfManagedTruncation = FALSE
    /\ needsSizeAdjustment = TRUE
    /\ hasIdIndex = TRUE
    /\ validator = NoValidator
    /\ validationLevel = "unset"
    /\ validationAction = "unset"
    /\ InitState

\* The catalog steps that make and retire instances, at most
\* MaxInstances of them in one run.
NextInstances ==
    \/ nextGen <= MaxInstances /\ clone
    \/ commitClone
    \/ rollbackClone
    \/ \E r \in ReaderIds : readerAcquire(r)
    \/ \E r \in ReaderIds : readerRelease(r)

NextCommitted ==
    /\ UNCHANGED <<storeVars, indexVars, cappedVars, metaLock, opVars,
                   lastArgs, calls, hist>>
    /\ \/ NextInstances
       \/ \E g \in Generations, val \in BOOLEAN : setCommitted(g, val)

SpecCommitted == InitInstances /\ [][NextCommitted]_vars

NextSnapshot ==
    /\ UNCHANGED <<storeVars, indexVars, cappedVars, metaLock, opVars,
                   lastArgs, calls, hist>>
    /\ \/ NextInstances
       \/ \E g \in Generations, ts \in Timestamps :
              setMinimumVisibleSnapshot(g, ts)

SpecSnapshot == InitInstances /\ [][NextSnapshot]_vars

\* A window executor after construction: values are added and removed and
\* the executor is reset, in any order.
NextWindow ==
    \/ \E v \in WindowValues : addValue(v)
    \/ initialize
    \/ removeFirstValueIfExists
    \/ reset

SpecWindow == InitInstances /\ [][NextWindow]_vars

\* The capped collection of the eviction specification, also truncated.
NextTruncate ==
    \/ NextEvict
    \/ /\ UNCHANGED <<lastArgs, calls, catVars>>
       /\ \E w \in Writers :
            \/ \E storage \in {"ok", "truncateFails"} : truncate(w, storage)
            \/ \E end \in RecordIds, inclusive \in BOOLEAN :
                  cappedTruncateAfter(w, end, inclusive)

SpecTruncate == InitEvict /\ [][NextTruncate]_vars

\* An initialised collection of a user database, as init leaves it for
\* its persisted validator, level and action.
InitValidator ==
    /\ ns = "user"
    /\ clusterRole = "None"
    /\ \E doc \in ValidatorSpecs, setting \in PersistedSettings :
           collectionOptions =
               [validator |-> doc, validationLevel |-> setting[1],
                validationAction |-> setting[2], recordPreImages |-> FALSE]
    /\ recordPreImages = FALSE
    /\ initialized = "yes"
    /\ collectionLatest = 1
    /\ collectionPrev = NoGen
    /\ alive = {1}
    /\ catalogGen = 1
    /\ pendingClone = NoGen
    /\ readers = [r \in ReaderIds |-> NoGen]
    /\ nextGen = 2
    /\ lastCat = NoCatOp
    /\ fcv = 50
    /\ isCapped = FALSE
    /\ cappedMaxSize = 0
    /\ cappedMaxDocs = 0
    /\ needCappedLock = FALSE
    /\ isReplicated = TRUE
    /\ selfManagedTruncation = FALSE
    /\ needsSizeAdjustment = TRUE
    /\ hasIdIndex = TRUE
    /\ validationLevel = collectionOptions.validationLevel
    /\ validationAction = collectionOptions.validationAction
    /\ validator = parseValidator(collectionOptions.validator, TRUE, FALSE)
    /\ InitState

\* The collMod steps on the validator, made under the collection X lock.
NextValidator ==
    LET w == TheWriter
    IN  \/ \E doc \in ValidatorSpecs :
              setValidator(w, parseValidator(doc, TRUE, FALSE))
        \/ \E newLevel \in ValidationLevels, fp \in BOOLEAN :
              setValidationLevel(w, newLevel, fp)
        \/ \E newAction \in ValidationActions, fp \in BOOLEAN :
              setValidationAction(w, newAction, fp)
        \/ \E newValidator \in ValidatorSpecs,
              newLevel \in ValidationLevels \cup {"unset"},
              newAction \in ValidationActions \cup {"unset"}, fp \in BOOLEAN :
              updateValidator(w, newValidator, newLevel, newAction, fp)

SpecValidator == InitValidator /\ [][NextValidator]_vars

\* ------------------------------------------------------------- properties
\* No unit of work is open.
Quiescent == \A w \in Writers : pc[w] = "idle"

\* Size of the records of the most recent committed insert still stored.
LastInsertSize == SumSizes(docs, hist.batch \cap live)

\* The entry points that insert.
InsertNames ==
    {"insertDocuments", "insertDocumentsForOplog", "insertDocumentForBulkLoader"}

\* The failures checkValidation returns as a Status.
ValidationFailures ==
    {"ValidatorError", "APIStrictError", "DocumentValidationFailure"}

\* The step is a call of the named entry point by writer w.
IsCall(w, name) == calls' = calls + 1 /\ lastOp'[w].name = name

\* The step changes neither the record store, nor the indexes, nor the
\* hooks, and the call has notified no observer.
NoEffect(w) ==
    /\ lastOp'[w].steps = <<>>
    /\ UNCHANGED <<storeVars, indexVars, cappedVars, commitHooks, rollbackHooks>>

\* C1, as stated: whenever no unit of work is open, the data size of the
\* capped collection is at most the size cap plus the size of the records of
\* the most recent committed insert.
C1_SizeBound == Quiescent => dataSize <= cappedMaxSize + LastInsertSize

\* C1, amended: the bound holds when units of work do not overlap and the
\* most recent committed one held a single insert whose eviction was
\* neither skipped nor abandoned.
C1_SizeBoundEvicting ==
    (Quiescent /\ hist.inserts = 1 /\ ~hist.unevicted)
        => dataSize <= cappedMaxSize + LastInsertSize

\* An insert of two records has evicted older records, committed, and the
\* collection is over its size cap by records of that insert only.
C1_Witness ==
    /\ Quiescent
    /\ hist.inserts = 1 /\ ~hist.unevicted
    /\ Cardinality(hist.batch) = 2
    /\ live = hist.batch
    /\ nextId > 3
    /\ dataSize > cappedMaxSize

\* C2: when an insert has returned (or thrown out of its eviction), every
\* record of its batch is still in the record store, uncommitted, whatever
\* the eviction removed.
C2_BatchSurvives ==
    \A w \in Writers :
        (pc[w] \in {"uow", "failed"} /\ lastOp[w].name \in InsertNames)
            => (uow[w].batch \subseteq ins[w] /\ uow[w].batch \subseteq Physical)

\* An insert of two records has evicted an older record and stopped at its
\* own batch, leaving the collection over its size cap.
C2_Witness ==
    \E w \in Writers :
        /\ pc[w] = "uow"
        /\ lastOp[w].name \in InsertNames /\ lastOp[w].status = "OK"
        /\ "deleteRecord" \in SeqToSet(lastOp[w].steps)
        /\ Cardinality(uow[w].batch) = 2
        /\ uow[w].batch \subseteq ins[w]
        /\ dataSize > cappedMaxSize

\* C3: when a unit of work that holds an eviction which saved the resume
\* pointer is rolled back, the pointer is null afterwards, so that the
\* cursor of the next eviction attempt of any writer starts at the first
\* record the writer sees.
C3_RollbackClearsPointer ==
    [][\A w \in Writers :
          (uow[w].saved /\ pc[w] \in {"uow", "failed"} /\ pc'[w] = "idle"
           /\ lastOp'[w].name = "rollback")
              => /\ cappedFirstRecord' = NullId
                 /\ \A o \in Writers :
                       cursorStart(Visible(o), cappedFirstRecord)'
                           = SortedSeq(Visible(o))']_vars

\* A writer has rolled back after its eviction moved the pointer, while the
\* other writer's open unit of work holds an eviction too; the pointer is
\* null and records remain.
C3_Witness ==
    \E w \in Writers :
        /\ lastOp[w].name = "rollback"
        /\ "clearCappedFirstRecord" \in SeqToSet(lastOp[w].steps)
        /\ cappedFirstRecord = NullId
        /\ live # {}
        /\ \E o \in Writers \ {w} : pc[o] = "uow" /\ uow[o].saved

C5_OldFails ==
    \A w \in Writers :
        (/\ lastOp[w].name = "updateDocument"
         /\ checkValidation(w, lastArgs.old) \in ValidationFailures)
            => /\ (/\ validationLevel = "moderate"
                   /\ checkValidation(w, lastArgs.new)
                          \in ValidationFailures \cup {"OK"})
                      => /\ lastOp[w].status \in
                               {"OK", "Location13596",
                                "CannotGrowDocumentInCappedNamespace",
                                "StorageError", "IndexError"}
                         /\ lastOp[w].status = "Location13596"
                               => idMismatch(lastArgs.old, lastArgs.new)
                         /\ lastOp[w].status = "CannotGrowDocumentInCappedNamespace"
                               => cappedSizeChange(lastArgs.old, lastArgs.new)
               /\ (/\ validationLevelOrDefault(validationLevel) = "strict"
                   /\ checkValidation(w, lastArgs.new) \in ValidationFailures)
                      => /\ lastOp[w].status = checkValidation(w, lastArgs.new)
                         /\ lastOp[w].steps = <<>>

\* Under level "moderate" an update from a failing document to a failing
\* document has succeeded.
C5_Witness ==
    \E w \in Writers :
        /\ lastOp[w].name = "updateDocument"
        /\ validationLevel = "moderate"
        /\ lastArgs.old.matches = "nomatch"
        /\ lastArgs.new.matches = "nomatch"
        /\ checkValidation(w, lastArgs.new) = "DocumentValidationFailure"
        /\ lastOp[w].status = "OK"

\* C6, as stated: a successful update keeps _id, and an update whose new
\* _id differs from the old one (an absent old _id included) fails with
\* 13596 without effect.
C6_IdKept ==
    [][\A w \in Writers :
          IsCall(w, "updateDocument")
              => /\ lastOp'[w].status = "OK"
                    => lastArgs'.new.idField = lastArgs'.old.idField
                 /\ lastArgs'.new.idField # lastArgs'.old.idField
                    => (lastOp'[w].status = "Location13596" /\ NoEffect(w))]_vars

\* C6, amended: when the old document has an _id, a successful update keeps
\* it, and an update whose new _id differs fails without effect, with
\* 13596 unless the validation block refuses the update first.
C6_IdKeptWhenPresent ==
    [][\A w \in Writers :
          (IsCall(w, "updateDocument") /\ lastArgs'.old.idField # 0)
              => /\ lastOp'[w].status = "OK"
                    => lastArgs'.new.idField = lastArgs'.old.idField
                 /\ lastArgs'.new.idField # lastArgs'.old.idField
                    => /\ NoEffect(w)
                       /\ lastOp'[w].status \in
                              ValidationFailures \cup {"DBException", "Location13596"}
                       /\ checkValidation(w, lastArgs'.new) = "OK"
                              => lastOp'[w].status = "Location13596"]_vars

\* An update that would change an existing _id has failed with 13596.
C6_Witness ==
    \E w \in Writers :
        /\ lastOp[w].name = "updateDocument"
        /\ lastArgs.old.idField = 1 /\ lastArgs.new.idField = 2
        /\ lastOp[w].status = "Location13596"
        /\ docs[lastArgs.loc] = lastArgs.old

\* C7: on a capped collection an update to a document of another size
\* fails without effect, whatever the validator and its settings.
C7_CappedSizeKept ==
    [][\A w \in Writers :
          (/\ IsCall(w, "updateDocument")
           /\ isCapped
           /\ lastArgs'.new.size # lastArgs'.old.size)
              => (lastOp'[w].status # "OK" /\ NoEffect(w))]_vars

\* On a capped collection with a validator an update that shrinks a failing
\* document into a failing document was refused for the size.
C7_Witness ==
    \E w \in Writers :
        /\ lastOp[w].name = "updateDocument"
        /\ isCapped /\ validator.filter
        /\ lastArgs.old.size = 2 /\ lastArgs.new.size = 1
        /\ lastArgs.new.matches = "nomatch"
        /\ lastOp[w].status = "CannotGrowDocumentInCappedNamespace"

\* Some document of the batch lacks _id.
LacksId(batch) == \E i \in 1..Len(batch) : batch[i].idField = 0

\* The first document of the batch that lacks _id follows only documents
\* that pass checkValidation.
LacksIdFirst(w, batch) ==
    \E i \in 1..Len(batch) :
        /\ batch[i].idField = 0
        /\ \A j \in 1..(i - 1) :
              batch[j].idField # 0 /\ checkValidation(w, batch[j]) = "OK"

\* C8, as stated (for a validator that compiled, the fail point off): with
\* an _id index, insertDocuments of a batch with a document that lacks _id
\* fails with the missing-key error, without effect.
C8_MissingId ==
    [][\A w \in Writers :
          (/\ IsCall(w, "insertDocuments")
           /\ validator.ok /\ ~lastArgs'.fp
           /\ hasIdIndex /\ LacksId(lastArgs'.batch))
              => (lastOp'[w].status = "InternalError" /\ NoEffect(w))]_vars

\* C8, amended: it fails without effect; the error is the missing-key error
\* unless the fail point is set or checkValidation fails a document that
\* precedes the first one without _id, whose error is then returned.
C8_MissingIdRefused ==
    [][\A w \in Writers :
          (IsCall(w, "insertDocuments") /\ hasIdIndex /\ LacksId(lastArgs'.batch))
              => /\ NoEffect(w)
                 /\ lastOp'[w].status \in
                        ValidationFailures
                        \cup {"DBException", "FailPointEnabled", "InternalError"}
                 /\ (~lastArgs'.fp /\ LacksIdFirst(w, lastArgs'.batch))
                        => lastOp'[w].status = "InternalError"
                 /\ lastOp'[w].status = "InternalError"
                        => LacksIdFirst(w, lastArgs'.batch)]_vars

\* A batch of a well-formed document followed by one without _id was
\* refused with the missing-key error.
C8_Witness ==
    \E w \in Writers :
        /\ lastOp[w].name = "insertDocuments"
        /\ hasIdIndex
        /\ Len(lastArgs.batch) = 2
        /\ lastArgs.batch[1].idField # 0 /\ lastArgs.batch[2].idField = 0
        /\ lastOp[w].status = "InternalError"
        /\ ins[w] = {} /\ commitHooks[w] = 0

\* The document-cap scenario: the documents inserted so far, the cap.
InsertedDocs == nextId - 1
SurvivorCount == Min(InsertedDocs, cappedMaxDocs)

\* C9, as stated: after the last commit the collection holds the
\* min(k, N) most recently inserted of the k documents.
C9_DocCap ==
    Quiescent
        => /\ numRecords = SurvivorCount
           /\ live = {r \in 1..InsertedDocs : r > InsertedDocs - SurvivorCount}

\* C9, amended: it does when, under FCV < 5.0, the collection needs size
\* adjustment.
C9_DocCapEvicting ==
    (Quiescent /\ (useOldCappedDeleteBehaviour => needsSizeAdjustment))
        => /\ numRecords = SurvivorCount
           /\ live = {r \in 1..InsertedDocs : r > InsertedDocs - SurvivorCount}

\* Two documents more than the cap were inserted and two were evicted.
C9_Witness ==
    /\ Quiescent
    /\ useOldCappedDeleteBehaviour => needsSizeAdjustment
    /\ InsertedDocs = cappedMaxDocs + 2
    /\ numRecords = cappedMaxDocs
    /\ dataSize <= cappedMaxSize

\* C10, as stated: with a validator that is not OK, an insert or update is
\* not refused with the validator's error when the level is "off" or the
\* caller has disabled schema validation.
C10_BrokenValidatorBypassed ==
    \A w \in Writers :
        (/\ lastOp[w].name \in {"insertDocuments", "updateDocument"}
         /\ ~lastArgs.fp
         /\ ~validator.ok
         /\ \/ validationLevel = "off"
            \/ validationDisabled[w])
            => lastOp[w].status # "ValidatorError"

\* checkValidation looks at the document for the operation of writer w:
\* there is a predicate, the level is not "off" and the caller has not
\* disabled schema validation.
ValidationEnforced(w) ==
    /\ validator.filter
    /\ validationLevelOrDefault(validationLevel) # "off"
    /\ ~validationDisabled[w]

PersistedValidator(fp) == parseValidator(collectionOptions.validator, TRUE, fp)

SomeDocRefused(w, batch) ==
    \E i \in 1..Len(batch) :
        \/ hasIdIndex /\ batch[i].idField = 0
        \/ checkValidation(w, batch[i]) # "OK"

\* The step of writer w starts no eviction and registers no hook.
NoEvictionNoHook(w) ==
    /\ pc'[w] = pc[w]
    /\ UNCHANGED <<cappedVars, justInserted, commitHooks, rollbackHooks>>

\* C13: an insertDocuments call writes nothing when a document of the batch
\* fails the _id or validation check; when the record write fails it
\* returns that error and no index update, notification, eviction or
\* commit hook follows; when the index update fails it returns that error
\* and no notification, eviction or commit hook follows; it goes on to
\* complete only when no step failed.
C13_InsertStopsAtFailure ==
    [][\A w \in Writers, storage \in StorageOutcomes :
          (/\ IsCall(w, "insertDocuments")
           /\ insertDocuments(w, lastArgs'.batch, lastArgs'.fp, storage))
              => LET batch == lastArgs'.batch
                     status == lastOp'[w].status
                     steps == lastOp'[w].steps
                     attempted == /\ ~lastArgs'.fp
                                  /\ ~SomeDocRefused(w, batch)
                                  /\ ~cannotBeBatched(batch)
                 IN  /\ SomeDocRefused(w, batch)
                        => (status \notin {"OK", "pending"} /\ NoEffect(w))
                     /\ (attempted /\ storage = "insertFails")
                        => /\ status = "StorageError"
                           /\ steps = <<"insertRecords">>
                           /\ NoEvictionNoHook(w)
                           /\ UNCHANGED <<storeVars, indexVars>>
                     /\ (attempted /\ storage = "indexFails")
                        => /\ status = "IndexError"
                           /\ steps = <<"insertRecords", "indexRecords">>
                           /\ NoEvictionNoHook(w)
                     /\ status \in {"OK", "pending"}
                        => (attempted /\ storage = "ok")]_vars

\* On an over-full capped collection with an index, an insert whose index
\* update failed has returned the error: the record is written, not
\* indexed, and neither an eviction nor a commit hook followed.
C13_Witness ==
    \E w \in Writers :
        /\ lastOp[w] = Op("insertDocuments", "IndexError",
                          <<"insertRecords", "indexRecords">>)
        /\ isCapped /\ hasIdIndex
        /\ dataSize > cappedMaxSize
        /\ ins[w] # {} /\ ins[w] \cap indexKeys = {}
        /\ pc[w] = "uow" /\ commitHooks[w] = 0

\* The calls of insertDocuments that precede the eviction, in order.
InsertSteps == <<"insertRecords", "indexRecords", "onInserts">>

\* The calls an eviction makes for a record.
EvictionStepNames ==
    {"aboutToDelete", "onDelete", "unindexRecord", "cursorNext", "deleteRecord"}

\* C14: an insertDocuments call that is not refused writes the records,
\* then updates the indexes, then notifies the observer (onInserts), and
\* the eviction it triggers runs after that: when the eviction starts the
\* records of the batch are written, their index entries exist and the
\* observer has been notified, and every call of the eviction follows.
C14_InsertOrder ==
    [][\A w \in Writers :
          /\ (IsCall(w, "insertDocuments")
              /\ lastOp'[w].status \in {"OK", "pending"})
                => /\ SubSeq(lastOp'[w].steps, 1, 3) = InsertSteps
                   /\ lastOp'[w].status = "pending"
                         => lastOp'[w].steps = InsertSteps
          /\ (/\ pc[w] = "capped" /\ pc'[w] # "capped"
              /\ lastOp[w].name = "insertDocuments")
                => /\ lastOp[w].steps = InsertSteps
                   /\ uow[w].batch \subseteq ins[w]
                   /\ haveAnyIndexes => uow[w].batch \subseteq indexKeys
                   /\ SubSeq(lastOp'[w].steps, 1, 3) = InsertSteps
                   /\ \A i \in 4..Len(lastOp'[w].steps) :
                         lastOp'[w].steps[i] \in EvictionStepNames
                                                 \cup {"onRollback", "sideCommit",
                                                       "onCommit"}]_vars

\* An insert into an indexed capped collection has evicted an older record
\* after its own record was written, indexed and notified.
C14_Witness ==
    \E w \in Writers :
        /\ lastOp[w].name = "insertDocuments" /\ lastOp[w].status = "OK"
        /\ hasIdIndex
        /\ SubSeq(lastOp[w].steps, 1, 3) = InsertSteps
        /\ Len(lastOp[w].steps) > 4
        /\ lastOp[w].steps[4] \in EvictionStepNames
        /\ "deleteRecord" \in SeqToSet(lastOp[w].steps)
        /\ uow[w].batch \subseteq indexKeys

\* C15, as stated (the fail point off): insertDocuments of more than one
\* document into a capped collection that has an index is refused with the
\* cannot-be-batched error, without effect; a batch of one document, and a
\* batch into a capped collection without index, is not refused with it.
C15_CannotBeBatched ==
    [][\A w \in Writers :
          (IsCall(w, "insertDocuments") /\ ~lastArgs'.fp)
              => /\ (isCapped /\ haveAnyIndexes /\ Len(lastArgs'.batch) > 1)
                    => /\ lastOp'[w].status = "OperationCannotBeBatched"
                       /\ NoEffect(w)
                 /\ (Len(lastArgs'.batch) = 1 \/ (isCapped /\ ~haveAnyIndexes))
                    => lastOp'[w].status # "OperationCannotBeBatched"]_vars

\* C15, amended: such a batch is refused without effect, with the
\* cannot-be-batched error unless the fail point is set or a document of
\* the batch fails the _id or validation check, whose error is returned.
C15_BatchRefused ==
    [][\A w \in Writers :
          IsCall(w, "insertDocuments")
              => /\ (isCapped /\ haveAnyIndexes /\ Len(lastArgs'.batch) > 1)
                    => /\ NoEffect(w)
                       /\ lastOp'[w].status =
                             (IF lastArgs'.fp THEN "FailPointEnabled"
                              ELSE IF SomeDocRefused(w, lastArgs'.batch)
                              THEN firstFailure(w, lastArgs'.batch)
                              ELSE "OperationCannotBeBatched")
                 /\ (\/ Len(lastArgs'.batch) = 1
                     \/ ~isCapped
                     \/ ~haveAnyIndexes)
                    => lastOp'[w].status # "OperationCannotBeBatched"]_vars

\* A batch of two well-formed documents for an indexed capped collection
\* was refused as not batchable; nothing was written.
C15_Witness ==
    \E w \in Writers :
        /\ lastOp[w] = Op("insertDocuments", "OperationCannotBeBatched", <<>>)
        /\ isCapped /\ haveAnyIndexes
        /\ Len(lastArgs.batch) = 2
        /\ ~SomeDocRefused(w, lastArgs.batch)
        /\ ins[w] = {} /\ nextId = 1

\* Position of the call named step among the calls, 0 if it was not made.
StepIndex(steps, step) ==
    IF step \in SeqToSet(steps)
    THEN CHOOSE i \in 1..Len(steps) : steps[i] = step
    ELSE 0

\* C16: deleteDocument on a capped collection by a caller that enforces
\* constraints is refused before any effect and does not take the
\* capped-deleter mutex; for a caller that does not, the delete goes ahead
\* with the mutex taken before aboutToDelete and released after onDelete.
C16_CappedDelete ==
    [][\A w \in Writers :
          (IsCall(w, "deleteDocument") /\ isCapped)
              => IF enforcing[w]
                 THEN /\ lastOp'[w].status = "Location10089"
                      /\ NoEffect(w)
                 ELSE LET steps == lastOp'[w].steps
                      IN  /\ lastOp'[w].status = "OK"
                          /\ steps[1] = "lockCappedDeleter"
                          /\ steps[Len(steps)] = "unlockCappedDeleter"
                          /\ StepIndex(steps, "aboutToDelete") = 2
                          /\ \E i \in 3..(Len(steps) - 1) :
                                steps[i] \in {"onDelete:deletedDoc",
                                              "onDelete:none"}
                          /\ cappedDeleterMutex = NoWriter
                          /\ lastArgs'.loc \in del'[w] \cup ins[w]
                          /\ lastArgs'.loc \notin indexKeys']_vars

\* A caller that does not enforce constraints has deleted a committed
\* record of a capped collection, under the mutex.
C16_Witness ==
    \E w \in Writers :
        /\ lastOp[w].name = "deleteDocument" /\ lastOp[w].status = "OK"
        /\ isCapped /\ ~enforcing[w]
        /\ lastOp[w].steps[1] = "lockCappedDeleter"
        /\ lastArgs.loc \in del[w]
        /\ cappedDeleterMutex = NoWriter

\* C17: a deleteDocument that is not refused calls aboutToDelete, then
\* removes the index entries, then deletes the record, then calls onDelete,
\* with the document body exactly when (the caller asked to store the
\* deleted document and the operation has a transaction number) or
\* pre-image recording is enabled.
C17_DeleteOrder ==
    [][\A w \in Writers, storeDeletedDoc \in BOOLEAN, txnNumber \in BOOLEAN :
          (/\ IsCall(w, "deleteDocument")
           /\ deleteDocument(w, lastArgs'.loc, storeDeletedDoc, txnNumber)
           /\ lastOp'[w].status = "OK")
              => LET steps == lastOp'[w].steps
                     body == (storeDeletedDoc /\ txnNumber) \/ recordPreImages
                     onDelete == IF body THEN "onDelete:deletedDoc"
                                 ELSE "onDelete:none"
                     other == IF body THEN "onDelete:none"
                              ELSE "onDelete:deletedDoc"
                 IN  /\ 0 < StepIndex(steps, "aboutToDelete")
                     /\ StepIndex(steps, "aboutToDelete")
                            < StepIndex(steps, "unindexRecord")
                     /\ StepIndex(steps, "unindexRecord")
                            < StepIndex(steps, "deleteRecord")
                     /\ StepIndex(steps, "deleteRecord")
                            < StepIndex(steps, onDelete)
                     /\ StepIndex(steps, other) = 0
                     /\ Cardinality(
                            {i \in 1..Len(steps) :
                                 steps[i] \notin {"lockCappedDeleter",
                                                  "unlockCappedDeleter"}}) = 4]_vars

\* With pre-image recording enabled, a delete has handed the document
\* body to onDelete.
C17_Witness ==
    \E w \in Writers :
        /\ recordPreImages
        /\ lastOp[w] = Op("deleteDocument", "OK",
                          <<"aboutToDelete", "unindexRecord", "deleteRecord",
                            "onDelete:deletedDoc">>)
        /\ lastArgs.loc \in del[w] \cup {r \in RecordIds : r < nextId}
        /\ lastArgs.loc \notin indexKeys

\* The newest of the instances in S (they are numbered in the order of
\* their construction).
Newest(S) == CHOOSE g \in S : \A h \in S : h <= g

\* C18: while the catalog holds the collection, after every clone, commit,
\* rollback and reader step the latest slot refers to the newest instance
\* still alive; a clone is made of the instance in the latest slot, which
\* is the one the catalog holds, and the rollback of the clone puts that
\* instance back into the latest slot.
C18_LatestIsNewest ==
    [][/\ catalogGen' # NoGen
             => (alive' # {} /\ collectionLatest' = Newest(alive'))
       /\ lastCat'.name = "clone"
             => (collectionLatest = catalogGen
                 /\ collectionLatest' = pendingClone')
       /\ lastCat'.name = "rollback"
             => (catalogGen' = catalogGen
                 /\ collectionLatest' = catalogGen
                 /\ collectionLatest' \in alive')]_vars

\* A clone made while a reader keeps the first instance alive was rolled
\* back: the latest slot is back on the instance the catalog holds.
C18_Witness ==
    /\ lastCat.name = "rollback"
    /\ catalogGen > 1
    /\ collectionLatest = catalogGen
    /\ alive = {1, catalogGen}
    /\ \E r \in ReaderIds : readers[r] = 1

\* C19: the destruction of instance g (instanceDeleted) empties the
\* previous slot if g is in it; moves the latest slot, if g is in it, to what
\* the previous slot then holds; and leaves both slots unchanged if g is in
\* neither.
C19_InstanceDeletedFrame ==
    [][\A g \in alive \ alive' :
          /\ collectionPrev' =
                (IF g = collectionPrev THEN NoGen ELSE collectionPrev)
          /\ collectionLatest' =
                (IF g # collectionLatest THEN collectionLatest
                 ELSE IF g = collectionPrev THEN NoGen ELSE collectionPrev)
          /\ g \notin {collectionPrev, collectionLatest}
                => UNCHANGED <<collectionPrev, collectionLatest>>]_vars

\* An instance that only a reader kept alive was destroyed while two newer
\* instances are in the slots.
C19_Witness ==
    /\ lastCat.name = "release"
    /\ lastCat.gen \notin alive
    /\ collectionPrev # NoGen
    /\ lastCat.gen < collectionPrev
    /\ collectionPrev < collectionLatest
    /\ {collectionPrev, collectionLatest} \subseteq alive

\* C20 as stated: clone (instanceCreated) puts the instance that was latest
\* into the previous slot and the clone into the latest slot, and whatever
\* instance was in the previous slot is in no slot any more.
C20_PrevUntracked ==
    [][lastCat'.name = "clone"
          => /\ collectionPrev' = collectionLatest
             /\ collectionLatest' = lastCat'.gen
             /\ collectionPrev # NoGen
                   => collectionPrev \notin {collectionPrev', collectionLatest'}
             /\ Cardinality({collectionPrev', collectionLatest'} \ {NoGen}) <= 2]_vars

\* C20: clone (instanceCreated) puts the instance that was latest into the
\* previous slot and the clone into the latest slot; the instance that was
\* in the previous slot, unless it was also the latest one (as it is after a
\* rolled-back clone), is in no slot any more, and the slots never hold more
\* than two instances.
C20_InstanceCreated ==
    [][lastCat'.name = "clone"
          => /\ collectionPrev' = collectionLatest
             /\ collectionLatest' = lastCat'.gen
             /\ lastCat'.gen \in alive' \ alive
             /\ (collectionPrev \notin {NoGen, collectionLatest})
                   => collectionPrev \notin {collectionPrev', collectionLatest'}
             /\ Cardinality({collectionPrev', collectionLatest'} \ {NoGen}) <= 2]_vars

\* A clone was made while a reader keeps the instance of the previous slot
\* alive: that instance is alive and in no slot.
C20_Witness ==
    /\ lastCat.name = "clone"
    /\ collectionLatest = lastCat.gen
    /\ collectionPrev = catalogGen
    /\ \E g \in alive :
          /\ g < collectionPrev
          /\ \E r \in ReaderIds : readers[r] = g

\* C21: whenever the record store calls aboutToDeleteCapped, the index
\* entries are removed through the instance in the latest slot at that
\* moment, whichever instance made the write, and that slot holds an
\* instance that is alive; the slot holds one at every moment the catalog
\* holds the collection, whatever clones and readers there are.
C21_CallbackUsesLatest ==
    [][/\ lastCat'.name = "aboutToDeleteCapped"
          => /\ collectionLatest # NoGen /\ collectionLatest \in alive
             /\ lastCat'.gen = collectionLatest
       /\ catalogGen' # NoGen
          => (collectionLatest' # NoGen /\ collectionLatest' \in alive')]_vars

\* The callback ran for a write made through the catalog's instance while
\* an uncommitted clone is the latest one and a reader holds an older
\* instance: the clone's index catalog served it.
C21_Witness ==
    /\ lastCat.name = "aboutToDeleteCapped"
    /\ lastCat.trigger = catalogGen
    /\ pendingClone # NoGen
    /\ lastCat.gen = pendingClone
    /\ \E r \in ReaderIds : readers[r] # NoGen /\ readers[r] < catalogGen

\* Writer w is inside an eviction attempt: it has taken the capped-deleter
\* mutex in _cappedDeleteAsNeeded and has not left.
InEviction(w) == pc[w] = "capped"

\* C22: at most one writer is inside an eviction attempt, and it holds the
\* capped-deleter mutex; no deleteDocument of a system operation removes a
\* record while another writer is inside an eviction attempt; the resume
\* pointer is read (by the eviction attempt) and written (by the attempt
\* and by the rollback handler) by the holder of the mutex only.
C22_EvictionsExclusive ==
    [][/\ \A w \in Writers :
             InEviction(w)'
                 => /\ cappedDeleterMutex' = w
                    /\ \A o \in Writers \ {w} : ~InEviction(o)'
       /\ \A w \in Writers :
             (~enforcing[w]
              /\ \E loc \in RecordIds : deleteDocument(w, loc, FALSE, FALSE))
                 => \A o \in Writers \ {w} : ~InEviction(o)
       /\ \A w \in Writers :
             cappedDeleteRun(w)
                 => (cappedDeleterMutex = w /\ cappedDeleterMutex' = NoWriter)
       /\ cappedFirstRecord' # cappedFirstRecord
             => \/ \E w \in Writers : cappedDeleteRun(w)
                \/ /\ cappedDeleterMutex = NoWriter
                   /\ \A o \in Writers : ~InEviction(o)
                   /\ \E w \in Writers : Rollback(w) /\ rollbackHooks[w] > 0]_vars

\* The user operation is inside an eviction attempt while the system
\* operation, which has deleted a record before, sees a record it could
\* delete.
C22_Witness ==
    /\ InEviction("w1")
    /\ pc["w2"] = "uow"
    /\ lastOp["w2"].name = "deleteDocument"
    /\ Visible("w2") # {}

\* C23: when a delete of the eviction loop raises a write conflict, the
\* resume pointer keeps its value; under the old behaviour (side
\* transaction) the insert returns OK, registers its commit hook, and no
\* record or index entry is removed; under the new behaviour the conflict
\* leaves the insert as an exception and the unit of work has failed.  Under
\* the old behaviour an insert that leaves a collection marked for size
\* adjustment over its cap enters an eviction attempt again.
C23_ConflictInEviction ==
    [][/\ \A w \in Writers :
             (cappedDeleteRun(w) /\ evictionOf(w).conflict)
                => /\ cappedFirstRecord' = cappedFirstRecord
                   /\ useOldCappedDeleteBehaviour
                         => /\ lastOp'[w].status = "OK"
                            /\ pc'[w] = "uow"
                            /\ commitHooks'[w] = commitHooks[w] + 1
                            /\ UNCHANGED <<live, ins, del, indexVars>>
                            /\ dataSize' = dataSize
                   /\ ~useOldCappedDeleteBehaviour
                         => /\ lastOp'[w].status = "WriteConflict"
                            /\ pc'[w] = "failed"
                            /\ commitHooks'[w] = commitHooks[w]
       /\ \A w \in Writers :
             (/\ useOldCappedDeleteBehaviour /\ needsSizeAdjustment
              /\ pc[w] = "uow" /\ ins'[w] # ins[w] /\ nextId' > nextId
              /\ cappedAndNeedDelete(dataSize, numRecords)')
                => pc'[w] = "cappedWait"]_vars

\* Under the old behaviour an insert has returned OK from an eviction
\* attempt that a write conflict ended: the record the system operation is
\* deleting is still stored and the collection is over its cap.
C23_Witness ==
    \E w \in Writers :
        /\ useOldCappedDeleteBehaviour /\ needsSizeAdjustment
        /\ ~selfManagedTruncation
        /\ pc[w] = "uow"
        /\ lastOp[w].name = "insertDocuments" /\ lastOp[w].status = "OK"
        /\ uow[w].unevicted
        /\ live \cap AllDel # {}
        /\ cappedFirstRecord = NullId
        /\ dataSize > cappedMaxSize

\* The step is one in which an insert call of writer w returns or throws.
InsertEnds(w) ==
    /\ lastOp'[w].name \in InsertNames
    /\ pc[w] \in {"uow", "capped"}
    /\ pc'[w] \in {"uow", "failed"}
    /\ lastOp'[w] # lastOp[w] \/ nextId' # nextId \/ pc[w] = "capped"

\* C24: an insert that returns OK registers exactly one onCommit handler
\* and one that fails registers none; readers waiting on the notifier are
\* woken only in the commit of a unit of work that holds such a handler,
\* which then wakes every waiter; a rollback wakes nobody.
C24_WakeAfterCommit ==
    [][\A w \in Writers :
          /\ InsertEnds(w)
                => /\ lastOp'[w].status = "OK"
                      => commitHooks'[w] = commitHooks[w] + 1
                   /\ lastOp'[w].status # "OK"
                      => commitHooks'[w] = commitHooks[w]
                   /\ notified' = notified
          /\ (pc'[w] = "cappedWait" /\ pc[w] = "uow")
                => (commitHooks'[w] = commitHooks[w] /\ notified' = notified)
          /\ Commit(w)
                => /\ commitHooks[w] > 0 => notified' = notified \cup cappedWaiters
                   /\ commitHooks[w] = 0 => notified' = notified
          /\ Rollback(w) => notified' = notified
          /\ ~(notified' \subseteq notified)
                => \E o \in Writers : Commit(o) /\ commitHooks[o] > 0]_vars

\* Two readers wait on the notifier; the writer's unit of work has
\* committed one insert and both were woken; its next unit of work holds an
\* insert that failed and registered nothing.
C24_Witness ==
    /\ cappedWaiters = ReaderIds
    /\ notified = ReaderIds
    /\ live # {}
    /\ pc[TheWriter] = "uow"
    /\ lastOp[TheWriter].name \in InsertNames
    /\ lastOp[TheWriter].status # "OK"
    /\ commitHooks[TheWriter] = 0

\* Writer w has, as the last operation of its open unit of work, written
\* through insertDocuments or updateDocument.
HasWritten(w) ==
    /\ pc[w] # "idle"
    /\ lastOp[w].name \in {"insertDocuments", "updateDocument"}
    /\ lastOp[w].steps # <<>>

InsertWrites(w) ==
    /\ pc[w] = "uow"
    /\ nextId' > nextId
    /\ ins'[w] # ins[w]
    /\ lastOp'[w].status \in {"OK", "pending"}

\* The collection is over its size cap or over its document cap.
OverCap ==
    \/ dataSize > cappedMaxSize
    \/ cappedMaxDocs # 0 /\ numRecords > cappedMaxDocs

\* C26, as stated: an insert into a capped collection is followed by an
\* eviction attempt exactly when the collection is then over its size cap
\* or its document cap and the record store does not truncate by itself.
C26_EvictionTrigger ==
    [][\A w \in Writers :
          InsertWrites(w)
              => (pc'[w] = "cappedWait"
                      <=> (OverCap' /\ ~selfManagedTruncation))]_vars

\* C26, amended: exactly when, in addition, the caller enforces
\* constraints (FCV >= 5.0) or the collection needs size adjustment
\* (FCV < 5.0).
C26_EvictionTriggerGated ==
    [][\A w \in Writers :
          InsertWrites(w)
              => (pc'[w] = "cappedWait"
                      <=> /\ OverCap' /\ ~selfManagedTruncation
                          /\ ~useOldCappedDeleteBehaviour => enforcing[w]
                          /\ useOldCappedDeleteBehaviour => needsSizeAdjustment)]_vars

\* An insert has left the collection over its document cap only and its
\* writer is about to take the capped-deleter mutex.
C26_Witness ==
    \E w \in Writers :
        /\ pc[w] = "cappedWait"
        /\ cappedMaxDocs # 0 /\ numRecords > cappedMaxDocs
        /\ dataSize <= cappedMaxSize
        /\ ~selfManagedTruncation

\* The records from the position writer w's eviction cursor starts at.
EvictionStart(w) ==
    cursorStart(IF useOldCappedDeleteBehaviour THEN SideVisible ELSE Visible(w),
                cappedFirstRecord)

\* The records a step by writer w removes from the store.
RemovedBy(w) ==
    IF useOldCappedDeleteBehaviour
    THEN live \ live'
    ELSE (del'[w] \ del[w]) \cup (ins[w] \ ins'[w])

RECURSIVE SizeOfFirst(_, _)
\* The data size of the first n records of sequence q.
SizeOfFirst(q, n) ==
    IF n = 0 THEN 0 ELSE SizeOfFirst(q, n - 1) + docs[q[n]].size

\* Removing the first n records of q meets both amounts over the caps, as
\* they are when the attempt starts.
AmountsMet(q, n) ==
    /\ SizeOfFirst(q, n) >=
           (IF dataSize > cappedMaxSize THEN dataSize - cappedMaxSize ELSE 0)
    /\ n >= (IF cappedMaxDocs # 0 /\ numRecords > cappedMaxDocs
             THEN numRecords - cappedMaxDocs ELSE 0)

StepsAdded(w) ==
    SubSeq(lastOp'[w].steps, Len(lastOp[w].steps) + 1, Len(lastOp'[w].steps))

IsRecordStep(step) ==
    step \in {"aboutToDelete", "onDelete", "unindexRecord", "cursorNext",
              "deleteRecord"}

\* C28: an eviction attempt performs, for each record it removes and in
\* this order: aboutToDelete and onDelete (only on a replicated collection
\* under the integrated policy), the removal of the index entries, the
\* advance of the cursor, the delete of the record; so the cursor has left
\* a record when that record is deleted.
C28_StepOrder ==
    [][\A w \in Writers :
          cappedDeleteRun(w)
              => LET added == StepsAdded(w)
                     perRecord == SelectSeq(added, IsRecordStep)
                     observed == ~useOldCappedDeleteBehaviour /\ isReplicated
                     k == IF observed THEN 5 ELSE 3
                     n == Len(evictionOf(w).removed)
                 IN  /\ Len(perRecord) = n * k
                     /\ SubSeq(added, 1, n * k) = perRecord
                     /\ \A i \in 0..(n - 1) :
                            /\ observed => /\ perRecord[i * k + 1] = "aboutToDelete"
                                           /\ perRecord[i * k + 2] = "onDelete"
                            /\ perRecord[i * k + k - 2] = "unindexRecord"
                            /\ perRecord[i * k + k - 1] = "cursorNext"
                            /\ perRecord[i * k + k] = "deleteRecord"]_vars

\* An insert into a replicated collection has evicted a record under the
\* integrated policy and notified the observer of it.
C28_Witness ==
    \E w \in Writers :
        /\ pc[w] = "uow"
        /\ uow[w].saved
        /\ del[w] # {}
        /\ isReplicated /\ ~useOldCappedDeleteBehaviour
        /\ \E i \in 1..Len(lastOp[w].steps) : lastOp[w].steps[i] = "onDelete"

\* The records writer w's eviction reads through: those of the side
\* transaction under the old policy, those of its own unit of work otherwise.
EvictionView(w) == IF useOldCappedDeleteBehaviour THEN SideVisible ELSE Visible(w)

\* The records of view from id onwards, in forward order; none when the
\* view has no record id.
RecordsFrom(view, id) ==
    IF id \in view THEN SortedSeq({r \in view : r >= id}) ELSE <<>>

\* C29: an eviction attempt (one that no write conflict ends) removes
\* records from the remembered position onwards when there is one, from the
\* first record of the store otherwise; when it completes, the remembered
\* position is the first record from there that it did not remove, and
\* empty when there is none.
C29_ResumePosition ==
    [][\A w \in Writers :
          cappedDeleteRun(w) /\ ~evictionOf(w).conflict
              => LET view == EvictionView(w)
                     from == IF cappedFirstRecord # NullId THEN cappedFirstRecord
                             ELSE IF view = {} THEN NullId
                             ELSE SetMin(view)
                     ahead == RecordsFrom(view, from)
                     n == Cardinality(RemovedBy(w))
                 IN  /\ n <= Len(ahead)
                     /\ RemovedBy(w) = {ahead[i] : i \in 1..n}
                     /\ cappedFirstRecord' =
                            (IF n < Len(ahead) THEN ahead[n + 1] ELSE NullId)]_vars

\* The committed insert of the second record evicted and remembered a
\* position; the attempt of the next insert has started there, removed the
\* second record and remembers the third.
C29_Witness ==
    \E w \in Writers :
        /\ ~useOldCappedDeleteBehaviour
        /\ hist.saved /\ hist.batch = {2}
        /\ pc[w] = "uow"
        /\ uow[w].saved
        /\ 1 \notin live /\ \A o \in Writers : 1 \notin del[o] \cup ins[o]
        /\ del[w] = {2}
        /\ cappedFirstRecord = 3

\* Writer w's step is an insert of several documents that hands a record
\* id to capped eviction.
BatchHandsOver(w) ==
    /\ InsertWrites(w)
    /\ pc'[w] = "cappedWait"
    /\ Cardinality(uow'[w].batch) > 1

\* C30, as stated: the record id an insert of several documents hands to
\* capped eviction is the id of the last record it wrote.
C30_LastRecord ==
    [][\A w \in Writers :
          BatchHandsOver(w)
              => \A r \in uow'[w].batch : r <= justInserted'[w]]_vars

\* C30, amended: it is the id of the first record the insert wrote.
C30_FirstRecord ==
    [][\A w \in Writers :
          BatchHandsOver(w)
              => /\ justInserted'[w] \in uow'[w].batch
                 /\ \A r \in uow'[w].batch : r >= justInserted'[w]]_vars

\* An insert of two documents has left the collection over a cap and has
\* handed the id of its first record to the eviction that is about to run.
C30_Witness ==
    \E w \in Writers :
        /\ pc[w] = "cappedWait"
        /\ Cardinality(uow[w].batch) = 2
        /\ justInserted[w] \in uow[w].batch
        /\ justInserted[w] + 1 \in uow[w].batch

\* The step is a call of updateDocumentWithDamages by the writer.
DamagesCall ==
    /\ lastArgs'.loc # NullId
    /\ lastOp'[TheWriter].name = "updateDocumentWithDamages"

\* The call of the step has notified the observer (onUpdate).
DamagesObserved == "onUpdate" \in SeqToSet(lastOp'[TheWriter].steps)

\* C31: updateWithDamagesSupported is true exactly when the validator is
\* OK, has no match expression and the record store supports in-place
\* updates; updateDocumentWithDamages calls onUpdate exactly when the
\* in-place update of the record succeeded, and with pre-image recording
\* enabled the pre-image it hands to the observer is the document as it was
\* before the update.
C31_InPlaceUpdate ==
    [][/\ \A rsSupported \in BOOLEAN :
             updateWithDamagesSupported(rsSupported)
                 <=> (validator.ok /\ ~validator.filter /\ rsSupported)
       /\ DamagesCall
              => /\ DamagesObserved <=> lastOp'[TheWriter].status = "OK"
                 /\ DamagesObserved
                        => /\ validator.ok /\ ~validator.filter
                           /\ lastArgs'.new # NoDoc
                           /\ docs'[lastArgs'.loc] = lastArgs'.new
                 /\ ~DamagesObserved => docs' = docs /\ lastArgs'.new = NoDoc
                 /\ DamagesObserved /\ recordPreImages
                        => lastArgs'.old = docs[lastArgs'.loc]]_vars

\* An in-place update on a collection that records pre-images, by a caller
\* that had set none, has changed the record and notified the observer.
C31_Witness ==
    \E w \in Writers :
        /\ lastOp[w].name = "updateDocumentWithDamages"
        /\ lastOp[w].status = "OK"
        /\ recordPreImages
        /\ lastArgs.old # NoDoc
        /\ lastArgs.old # lastArgs.new
        /\ docs[lastArgs.loc] = lastArgs.new

\* C32: an eviction attempt under the old policy (side transaction),
\* however it ends, leaves the operation with the caller's recovery unit
\* in the caller's unit-of-work state, and neither commits nor rolls back
\* what the caller's unit of work has written.
C32_SideTxnRestores ==
    [][\A w \in Writers :
          cappedDeleteRun(w) /\ useOldCappedDeleteBehaviour
              => /\ uow'[w].ru = uow[w].ru
                 /\ uow'[w].ru = RecoveryUnit("caller", "kActiveUnitOfWork")
                 /\ pc'[w] = "uow"
                 /\ ins'[w] = ins[w] /\ del'[w] = del[w]
                 /\ snap'[w] = snap[w] /\ undo'[w] = undo[w]
                 /\ ixAdded'[w] = ixAdded[w] /\ ixRemoved'[w] = ixRemoved[w]
                 /\ ins[w] \cap live' = {}
                 /\ \A r \in ins[w] : docs'[r] = docs[r]
                 /\ rollbackHooks'[w] = rollbackHooks[w]]_vars

\* An insert under the old policy has evicted in a side transaction that
\* committed; the caller's unit of work is still open with its insert.
C32_Witness ==
    \E w \in Writers :
        /\ useOldCappedDeleteBehaviour
        /\ pc[w] = "uow"
        /\ "sideCommit" \in SeqToSet(lastOp[w].steps)
        /\ "deleteRecord" \in SeqToSet(lastOp[w].steps)
        /\ ins[w] # {}
        /\ uow[w].ru = RecoveryUnit("caller", "kActiveUnitOfWork")

\* The step is a call of one of the setters of the validator.
SetterCall ==
    /\ lastOp'[TheWriter].name \in {"setValidator", "setValidationLevel",
                                    "setValidationAction", "updateValidator"}
    /\ <<validator, validationLevel, validationAction, collectionOptions,
         lastOp, lastArgs>>' #
       <<validator, validationLevel, validationAction, collectionOptions,
         lastOp, lastArgs>>

\* The validator document, level and action of the instance are the
\* persisted ones (an unset level or action being its default).
WrittenThrough ==
    /\ validator.validatorDoc = collectionOptions.validator
    /\ validationLevelOrDefault(validationLevel) =
           validationLevelOrDefault(collectionOptions.validationLevel)
    /\ validationActionOrDefault(validationAction) =
           validationActionOrDefault(collectionOptions.validationAction)

\* C33: after setValidator, setValidationLevel, setValidationAction or
\* updateValidator has returned, with OK or with an error, the validator
\* document, the level and the action of the instance equal the persisted
\* ones.
C33_WriteThrough == [][SetterCall => WrittenThrough']_vars

\* The step is a call of setValidationLevel, setValidationAction or
\* updateValidator that returns OK, the fail point being off.
SettingChanged ==
    /\ SetterCall
    /\ lastOp'[TheWriter].name # "setValidator"
    /\ lastOp'[TheWriter].status = "OK"
    /\ ~lastArgs'.fp

\* C34: after a successful setValidationLevel, setValidationAction or
\* updateValidator the Validator of the instance is what parseValidator
\* makes of its document under the level and action the instance now has;
\* so it holds no match expression with encryption keywords while the
\* action is "warn" or the level is "moderate".
C34_CompiledUnderNew ==
    [][SettingChanged
          => /\ \E doc \in ValidatorSpecs :
                   /\ doc = validator'.validatorDoc
                   /\ validator' = parseValidator(doc, TRUE, FALSE)'
             /\ (\/ validationActionOrDefault(validationAction') = "warn"
                 \/ validationLevelOrDefault(validationLevel') = "moderate")
                    => ~(validator'.validatorDoc = "encrypted"
                             /\ validator'.filter)]_vars

\* C35: an insertDocumentForBulkLoader whose onRecordInserted callback
\* returned an error returns an error, and has neither called onInserts,
\* nor run the capped eviction, nor registered the onCommit handler.
C35_CallbackError ==
    \A w \in Writers :
        (/\ lastOp[w].name = "insertDocumentForBulkLoader"
         /\ "onRecordInserted:Error" \in SeqToSet(lastOp[w].steps))
            => /\ lastOp[w].status \notin {"OK", "pending"}
               /\ SeqToSet(lastOp[w].steps)
                      \cap {"onInserts", "onCommit", "deleteRecord"} = {}
               /\ commitHooks[w] = 0

\* C36: a resume pointer that is set names a record that is in the record
\* store, whatever has removed records (eviction, a system delete,
\* truncate, cappedTruncateAfter); so no eviction attempt finds its
\* remembered record missing.
C36_PointerPresent ==
    [][/\ cappedFirstRecord' # NullId
             => cappedFirstRecord' \in (live' \cup AllIns')
       /\ \A w \in Writers :
             cappedDeleteRun(w) /\ cappedFirstRecord # NullId
                 => cappedFirstRecord \in EvictionView(w)]_vars

\* C37: an eviction attempt ends, and however it ends the capped-deleter
\* mutex is free afterwards (it is held only by a writer inside an
\* attempt); so under fair scheduling a writer that waits for the mutex
\* gets it, and the mutex is free again and again for a system delete or a
\* rollback handler.
C37_MutexReleased ==
    /\ [](\A w \in Writers : cappedDeleterMutex = w => pc[w] = "capped")
    /\ \A w \in Writers : (pc[w] = "capped") ~> (pc[w] \in {"uow", "failed"})
    /\ \A w \in Writers : (pc[w] = "cappedWait") ~> (pc[w] = "capped")
    /\ []<>(cappedDeleterMutex = NoWriter)

\* A writer waits for the capped-deleter mutex while the attempt of the
\* other one holds it.
C37_Witness ==
    \E w \in Writers, o \in Writers :
        /\ pc[w] = "cappedWait"
        /\ pc[o] = "capped"
        /\ cappedDeleterMutex = o

\* C38: setCommitted(v) on an instance makes its own isCommitted() return v
\* and leaves isCommitted() of every other instance of the shared state as
\* it was; and isCommitted() of an instance changes in no other step.
C38_OwnCommitted ==
    [][/\ \A g \in Generations, val \in BOOLEAN :
              setCommitted(g, val)
                  => /\ isCommitted(g)' = val
                     /\ \A o \in alive \ {g} : isCommitted(o)' = isCommitted(o)
       /\ lastCat'.name # "setCommitted"
              => \A o \in alive : isCommitted(o)' = isCommitted(o)]_vars

\* C38, for the other instances whose cached flag is set: setCommitted(v)
\* on an instance makes its own isCommitted() return v and leaves
\* isCommitted() of every other instance whose cached flag is set as it
\* was; and isCommitted() of an instance changes in no other step.
C38_OwnCommittedCached ==
    [][/\ \A g \in Generations, val \in BOOLEAN :
              setCommitted(g, val)
                  => /\ isCommitted(g)' = val
                     /\ \A o \in alive \ {g} :
                            cachedCommitted[o]
                                => isCommitted(o)' = isCommitted(o)
       /\ lastCat'.name # "setCommitted"
              => \A o \in alive : isCommitted(o)' = isCommitted(o)]_vars

\* setCommitted(false) was called on a clone while the instance it was
\* cloned from is alive and has its cached flag set.
C38_Witness ==
    /\ lastCat.name = "setCommitted"
    /\ lastCat.gen > 1
    /\ ~isCommitted(lastCat.gen)
    /\ \E o \in alive \ {lastCat.gen} : cachedCommitted[o] /\ isCommitted(o)

\* The largest of a non-empty set of timestamps.
MaxOf(S) == CHOOSE t \in S : \A o \in S : o <= t

\* C39: the minimum visible snapshot of an instance never decreases: after
\* any sequence of setMinimumVisibleSnapshot calls it is the largest of the
\* timestamps passed so far (none yet: not set).
C39_SnapshotMax ==
    /\ \A g \in alive :
          minVisibleSnapshot[g] =
              (IF snapshotsPassed[g] = {} THEN NoTimestamp
               ELSE MaxOf(snapshotsPassed[g]))
    /\ lastCat.name = "setMinimumVisibleSnapshot"
          => /\ snapshotsPassed[lastCat.gen] # {}
             /\ minVisibleSnapshot[lastCat.gen] # NoTimestamp

\* A smaller timestamp was passed to an instance after a larger one.
C39_Witness ==
    /\ lastCat.name = "setMinimumVisibleSnapshot"
    /\ lastCat.gen \in alive
    /\ snapshotsPassed[lastCat.gen] = Timestamps
    /\ minVisibleSnapshot[lastCat.gen] = MaxTimestamp
    /\ \E o \in alive : minVisibleSnapshot[o] < MaxTimestamp

\* C40: after any sequence of additions, removeFirstValueIfExists calls and
\* resets the memory tracked is the size of the executor plus the sizes of
\* the values in the queue; removeFirstValueIfExists changes nothing on an
\* empty queue and otherwise removes the oldest value from the queue and
\* from the window function and subtracts its size; after reset() the queue
\* is empty, the executor uninitialized and no dropped value is counted.
C40_MemoryExact ==
    [][/\ memUsageBytes' = ExecSize + SumApproximateSizes(values')
       /\ removeFirstValueIfExists
              => IF values = <<>>
                 THEN UNCHANGED execVars
                 ELSE /\ values' = Tail(values)
                      /\ functionValues' = Tail(functionValues)
                      /\ memUsageBytes' =
                             memUsageBytes - getApproximateSize(Head(values))
       /\ reset
              => /\ values' = <<>>
                 /\ ~execInitialized'
                 /\ memUsageBytes' = ExecSize]_vars

====
